---- MODULE Spec2Model ----
(***************************************************************************)
(* Model of onlyfans-dl: the paginated fetchers and normalizers of         *)
(* client/client.py and client/structs.py, the per-user ledger (.media.db) *)
(* and file materialisation of OnlyFansScraper.download_media, and the     *)
(* two-phase scheduler of __main__.download / __main__.main.               *)
(*                                                                         *)
(* Timestamps are the integers that int(strptime(..).timestamp()) yields;  *)
(* a calendar day spans two ticks of the model's clock.  Geometry and      *)
(* duration fields of the media structs are copied verbatim by the code    *)
(* and read by nothing; they are left out.                                 *)
(***************************************************************************)
EXTENDS Integers, Sequences, FiniteSets, TLC

VARIABLES
    wIn,        \* the input of one pagination walk (collection, high-water mark, ...)
    wOut,       \* its outcome: items returned, offsets requested, error
    hIn,        \* a ledger store and source type handed to the high-water-mark query
    hOut,       \* what the query returned
    nIn,        \* a remote record or document set handed to one client function
    nOut,       \* what that function returned or raised
    passNo,     \* number of the running process (one pass of main over the accounts)
    epoch,      \* version of the remote content being served
    acct,       \* index of the account main() is processing
    pc,         \* position of the main thread in main() / download()
    fut,        \* futures of the running fetch stage, in submission order
    user_medias,\* download()'s dict: <<[user, medias]>> in insertion order
    dl,         \* download_media tasks, in the order of user_medias
    mapIdx,     \* next result executor.map yields to the main thread
    ledger,     \* per remote user: the committed state of {root}/{username}/.media.db
    fs,         \* per remote user: the files under {root}/{username}, path -> content
    xfers,      \* per remote user, the transfer requests and writes of the running process
    hwmRead,    \* history: the last high-water mark read for (user, source type)
    reported    \* failures the running process has logged

walkVars == <<wIn, wOut>>
hwmVars == <<hIn, hOut>>
normVars == <<nIn, nOut>>
passVars == <<passNo, epoch, acct, pc, fut, user_medias, dl, mapIdx, ledger, fs,
              xfers, hwmRead, reported>>
vars == <<wIn, wOut, hIn, hOut, nIn, nOut, passNo, epoch, acct, pc, fut, user_medias, dl,
          mapIdx, ledger, fs, xfers, hwmRead, reported>>

----------------------------------------------------------------------------
(* Bounds of the model *)

\* Longest remote collection handed to a pagination walk.
MaxPosts == 21

----------------------------------------------------------------------------
(* Program constants *)

\* limit=10 of the posts / archived posts URL.
PageLimit == 10
\* offset += 10 after each page of posts / archived posts.
OffsetStep == 10

None == "None"

Min(a, b) == IF a < b THEN a ELSE b

----------------------------------------------------------------------------
(* structs.py: the normalizers.  A result is [err, items]: err is "none"   *)
(* or the name of the exception that escapes.                              *)

Ok(items) == [err |-> "none", items |-> items]
Raise(e) == [err |-> e, items |-> <<>>]

AnyCanView(media) == \E i \in 1..Len(media) : media[i].can_view

\* 'paid' if post.price else 'free'
PostValue(post, m) == IF post.price # 0 THEN "paid" ELSE "free"

PreviewValue_PriceOnly(price, preview, m) ==
    IF price # 0 THEN "paid" ELSE "free"

\* 'paid' if post.price and media.id not in post.preview else 'free'
PreviewValue(price, preview, m) ==
    IF price # 0 /\ m.id \notin preview THEN "paid" ELSE "free"

NormalizedMedia(user_id, source_type, source_id, m, created_at, value, text) ==
    [user_id |-> user_id, source_type |-> source_type, source_id |-> source_id,
     id |-> m.id, file_type |-> m.type, created_at |-> created_at,
     value |-> value, text |-> text, url |-> m.url]

PostMediaFrom_AnyEntry(post, archived, i) ==
    [j \in 1..Len(post.media) |->
        NormalizedMedia(post.author, IF archived THEN "archived" ELSE "posts",
                        post.id, post.media[j], post.posted_at,
                        IF archived THEN PreviewValue(post.price, post.preview,
                                                      post.media[j])
                                    ELSE PostValue(post, post.media[j]),
                        post.raw_text)]

RECURSIVE PostMediaFrom(_, _, _)
PostMediaFrom(post, archived, i) ==
    IF i > Len(post.media) THEN <<>>
    ELSE LET m == post.media[i]
             rest == PostMediaFrom(post, archived, i + 1)
         IN  IF ~m.can_view THEN rest
             ELSE <<NormalizedMedia(post.author,
                                    IF archived THEN "archived" ELSE "posts",
                                    post.id, m, post.posted_at,
                                    IF archived THEN PreviewValue(post.price, post.preview, m)
                                                ELSE PostValue(post, m),
                                    post.raw_text)>> \o rest

normalize_post_media_KeepExpiring(post, skip_temporary) ==
    IF Len(post.media) = 0 THEN Ok(<<>>) ELSE Ok(PostMediaFrom(post, FALSE, 1))

normalize_post_media(post, skip_temporary) ==
    IF Len(post.media) = 0 \/ (post.expired_at # None /\ skip_temporary)
    THEN Ok(<<>>)
    ELSE Ok(PostMediaFrom(post, FALSE, 1))

normalize_archived_post_media(post, skip_temporary) ==
    IF Len(post.media) = 0 \/ (post.expired_at # None /\ skip_temporary)
    THEN Ok(<<>>)
    ELSE Ok(PostMediaFrom(post, TRUE, 1))

RECURSIVE MessageMediaFrom(_, _)
MessageMediaFrom(message, i) ==
    IF i > Len(message.media) THEN <<>>
    ELSE LET m == message.media[i]
             rest == MessageMediaFrom(message, i + 1)
         IN  IF ~m.can_view THEN rest
             ELSE <<NormalizedMedia(message.from_user, "messages", message.id, m,
                                    message.created_at,
                                    PreviewValue(message.price, message.previews, m),
                                    message.text)>> \o rest

normalize_message_media(message) == Ok(MessageMediaFrom(message, 1))

\* NormalizedMedia declares `value: str` without a default and
\* normalize_story_media does not pass it: constructing the first viewable
\* entry raises TypeError (a required argument is missing).
normalize_story_media(story, highlight_category) ==
    IF AnyCanView(story.media) THEN Raise("TypeError") ELSE Ok(<<>>)

----------------------------------------------------------------------------
(* client.py: offset pages with local early stop (posts, archived posts).  *)

\* The remote answers `limit=10&offset=N` with the records N+1 .. N+10 of
\* the collection, fewer at its end.
\* The posts of the end-to-end scenario and the page size its remote serves.
E2EPosts == 15
E2EPageSize == 5

\* How many records the remote puts in one page: the limit the request
\* asks for, but for the posts of user 4 (ids above 400), whose remote
\* serves fewer.
PageSize(coll) ==
    IF Len(coll) > 0 /\ coll[1].id > 400 THEN E2EPageSize ELSE PageLimit

Page(coll, offset) ==
    IF offset >= Len(coll) THEN <<>>
    ELSE SubSeq(coll, offset + 1, Min(offset + PageSize(coll), Len(coll)))

\* The else branch of `if int(...timestamp()) > last_post_timestamp`.
StopsAt_Never(post, hwm) == FALSE

StopsAt(post, hwm) == ~(post.posted_at > hwm)

NormalizePost(kind, post, skip_temporary) ==
    IF kind = "archived" THEN normalize_archived_post_media(post, skip_temporary)
    ELSE normalize_post_media(post, skip_temporary)

\* The for loop over one decoded page: [items, stop].
RECURSIVE ScanPage(_, _, _, _, _, _)
ScanPage(kind, page, i, hwm, skip_temporary, acc) ==
    IF i > Len(page) THEN [items |-> acc, stop |-> FALSE]
    ELSE IF StopsAt(page[i], hwm) THEN [items |-> acc, stop |-> TRUE]
    ELSE ScanPage(kind, page, i + 1, hwm, skip_temporary,
                  IF Len(page[i].media) > 0 /\ AnyCanView(page[i].media)
                  THEN acc \o NormalizePost(kind, page[i], skip_temporary).items
                  ELSE acc)

\* The while loop: one request per round.  failAt is the number of the
\* request the transport fails (0: none fails).
RECURSIVE WalkFrom(_, _, _, _, _, _, _, _)
WalkFrom(kind, coll, hwm, skip_temporary, failAt, offset, acc, reqs) ==
    LET reqs2 == Append(reqs, offset) IN
    IF Len(reqs2) = failAt
    THEN [err |-> "ScrapingException", items |-> <<>>, reqs |-> reqs2]
    ELSE LET page == Page(coll, offset) IN
         IF Len(page) = 0
         THEN [err |-> "none", items |-> acc, reqs |-> reqs2]
         ELSE LET s == ScanPage(kind, page, 1, hwm, skip_temporary, acc) IN
              IF s.stop
              THEN [err |-> "none", items |-> s.items, reqs |-> reqs2]
              ELSE WalkFrom(kind, coll, hwm, skip_temporary, failAt,
                            offset + OffsetStep, s.items, reqs2)

WalkPosts(kind, coll, hwm, skip_temporary, failAt) ==
    WalkFrom(kind, coll, hwm, skip_temporary, failAt, 0, <<>>, <<>>)

----------------------------------------------------------------------------
(* client.py: category-then-detail fan-out (highlights) and the single     *)
(* unpaginated fetch (stories).  Both scan reversed(stories).              *)

Reverse(seq) == [i \in 1..Len(seq) |-> seq[Len(seq) + 1 - i]]

\* `for story in reversed(...)`: [err, items, stop]; a normalizer's
\* exception escapes the loop.
RECURSIVE ScanStories(_, _, _, _, _)
ScanStories(stories, i, hwm, title, acc) ==
    IF i > Len(stories) THEN [err |-> "none", items |-> acc, stop |-> FALSE]
    ELSE IF ~(stories[i].created_at > hwm)
         THEN [err |-> "none", items |-> acc, stop |-> TRUE]
    ELSE LET n == normalize_story_media(stories[i], title) IN
         IF n.err # "none" THEN [err |-> n.err, items |-> <<>>, stop |-> TRUE]
         ELSE ScanStories(stories, i + 1, hwm, title, acc \o n.items)

\* `for category in categories`: one detail document per category, the
\* cutoff applied to each category on its own (break, not return).
RECURSIVE HighlightsFrom(_, _, _, _)
HighlightsFrom(categories, c, hwm, acc) ==
    IF c > Len(categories) THEN Ok(acc)
    ELSE LET s == ScanStories(Reverse(categories[c].stories), 1, hwm,
                              categories[c].title, acc)
         IN  IF s.err # "none" THEN Raise(s.err)
             ELSE HighlightsFrom(categories, c + 1, hwm, s.items)

get_highlight_media(categories, hwm) == HighlightsFrom(categories, 1, hwm, <<>>)

get_story_media(stories, hwm) ==
    LET s == ScanStories(Reverse(stories), 1, hwm, None, <<>>)
    IN  IF s.err # "none" THEN Raise(s.err) ELSE Ok(s.items)

----------------------------------------------------------------------------
(* client.py: the messages walk.  download() calls the task with the User  *)
(* struct of the chat partner, not with its id: a Python value is modelled *)
(* as [tag, v] so that `message.from_user.id == user_id` compares an int   *)
(* with whatever was passed.                                               *)

PyInt(n) == [tag |-> "int", v |-> n]
PyUser(n) == [tag |-> "User", v |-> n]

\* int.__eq__(User) and User.__eq__(int) both answer NotImplemented: False.
PyEq(a, b) == a.tag = b.tag /\ a.v = b.v

RECURSIVE ScanMessages(_, _, _, _, _)
ScanMessages(page, i, hwm, user_id, acc) ==
    IF i > Len(page) THEN [items |-> acc, stop |-> FALSE]
    ELSE IF ~(page[i].created_at > hwm) THEN [items |-> acc, stop |-> TRUE]
    ELSE ScanMessages(page, i + 1, hwm, user_id,
                      IF PyEq(PyInt(page[i].from_user), user_id)
                         /\ Len(page[i].media) > 0 /\ AnyCanView(page[i].media)
                      THEN acc \o normalize_message_media(page[i]).items
                      ELSE acc)

\* The while loop: one request per round, `offset += len(messages)` after
\* a page that did not stop the walk.  [err, items, reqs]; failAt is the
\* number of the request that fails (0: none fails), caught either way.
RECURSIVE MessagesFrom(_, _, _, _, _, _, _)
MessagesFrom(coll, hwm, user_id, failAt, offset, acc, reqs) ==
    LET reqs2 == Append(reqs, [doc |-> "messages", at |-> offset]) IN
    IF Len(reqs2) = failAt
    THEN [err |-> "ScrapingException", items |-> <<>>, reqs |-> reqs2]
    ELSE LET page == Page(coll, offset)
             has_more == offset + Len(page) < Len(coll)
             s == ScanMessages(page, 1, hwm, user_id, acc)
         IN  IF s.stop \/ ~has_more
             THEN [err |-> "none", items |-> s.items, reqs |-> reqs2]
             ELSE MessagesFrom(coll, hwm, user_id, failAt, offset + Len(page),
                               s.items, reqs2)

get_message_media(coll, hwm, user_id) ==
    LET w == MessagesFrom(coll, hwm, user_id, 0, 0, <<>>, <<>>)
    IN  [err |-> w.err, items |-> w.items]

----------------------------------------------------------------------------
(* The remote side: three remote users and two versions of their content.  *)

Users == {1, 2, 3, 4, 5}
Epochs == <<"v1", "v2">>
SourceTypes == {"posts", "archived", "messages", "stories"}
HwmTypes == SourceTypes \cup {"highlights"}

Media(id, type, can_view) ==
    [id |-> id, type |-> type, can_view |-> can_view, url |-> id]

Post(id, posted_at, author, raw_text, price, preview, media) ==
    [id |-> id, posted_at |-> posted_at, expired_at |-> None, author |-> author,
     raw_text |-> raw_text, price |-> price, preview |-> preview, media |-> media]

Story(id, user_id, created_at, media) ==
    [id |-> id, user_id |-> user_id, created_at |-> created_at, media |-> media,
     question |-> None]

\* User 1: two posts; in "v2" the older post is served again under a new
\* publication time, and in "solo2" a third post has appeared as well.  User 2: one post, served twice by a page that drifted
\* while it was listed, with a media entry of a type the client does not
\* know.  User 3: one post.  User 4: the fifteen posts of the end-to-end
\* scenario, newest first, one photo each.  User 5: none.
RemotePosts(u, e) ==
    CASE u = 1 /\ e \in {"v1", "solo1"} ->
           <<Post(12, 4, 1, "a", 0, {},
                  <<Media(121, "photo", TRUE), Media(122, "video", FALSE)>>),
             Post(11, 2, 1, "b", 5, {}, <<Media(111, "video", TRUE)>>)>>
      [] u = 1 /\ e = "solo2" ->
           <<Post(14, 7, 1, "f", 0, {}, <<Media(141, "photo", TRUE)>>),
             Post(11, 6, 1, "b", 5, {}, <<Media(111, "video", TRUE)>>),
             Post(12, 4, 1, "a", 0, {},
                  <<Media(121, "photo", TRUE), Media(122, "video", FALSE)>>)>>
      [] u = 1 /\ e = "v2" ->
           <<Post(11, 6, 1, "b", 5, {}, <<Media(111, "video", TRUE)>>),
             Post(12, 4, 1, "a", 0, {},
                  <<Media(121, "photo", TRUE), Media(122, "video", FALSE)>>)>>
      [] u = 2 ->
           <<Post(21, 3, 2, "c", 0, {},
                  <<Media(211, "gif", TRUE), Media(212, "sticker", TRUE)>>),
             Post(21, 3, 2, "c", 0, {},
                  <<Media(211, "gif", TRUE), Media(212, "sticker", TRUE)>>)>>
      [] u = 3 -> <<Post(31, 2, 3, "d", 0, {}, <<Media(311, "photo", TRUE)>>)>>
      [] u = 4 ->
           [i \in 1..E2EPosts |->
               Post(400 + i, E2EPosts + 1 - i, 4, "e", 0, {},
                    <<Media(4000 + i, "photo", TRUE)>>)]
      [] OTHER -> <<>>

RemoteArchived(u, e) ==
    IF u = 1
    THEN <<Post(13, 3, 1, "a", 5, {131}, <<Media(131, "audio", TRUE)>>)>>
    ELSE <<>>

\* Highlight categories with their detail documents' stories.
RemoteHighlights(u, e) ==
    CASE u = 2 ->
           <<[id |-> 1, title |-> "h",
              stories |-> <<Story(24, 2, 1, <<Media(241, "photo", FALSE)>>)>>]>>
      [] u = 3 /\ e = "v2" ->
           <<[id |-> 2, title |-> "k",
              stories |-> <<Story(34, 3, 5, <<Media(341, "photo", TRUE)>>)>>]>>
      [] OTHER -> <<>>

RemoteStories(u, e) ==
    IF u = 2 THEN <<Story(24, 2, 1, <<Media(241, "photo", FALSE)>>)>> ELSE <<>>

RemoteMessages(u, e) ==
    IF u = 3
    THEN <<[id |-> 35, created_at |-> 2, from_user |-> 3, text |-> "m",
            price |-> 0, previews |-> {},
            media |-> <<Media(351, "photo", TRUE)>>]>>
    ELSE <<>>

\* user.avatar / user.header: the URL, named by kind, or None.
AssetUrl(u, kind) ==
    IF (u = 1 /\ kind = "avatar") \/ (u = 2 /\ kind = "header") THEN kind ELSE None

\* The last-modified header the remote sends for the asset.
AssetStamp(u, kind, e) == IF u = 1 /\ e \in {"v2", "solo2"} THEN 2 ELSE 1

\* Chunks of a body (requests' iter_content): the photo of user 3 arrives
\* in two chunks, every other body in one.
BodySize(url) == IF url = 311 THEN 2 ELSE 1

\* The configured accounts: subscriptions, chat partners, skip_temporary.
Accounts ==
    <<[subs |-> <<1, 2>>, chats |-> <<>>, skip_temporary |-> FALSE],
      [subs |-> <<3>>, chats |-> <<3>>, skip_temporary |-> TRUE]>>

\* The configuration of the end-to-end scenario: one account, two users.
E2EAccounts == <<[subs |-> <<4, 5>>, chats |-> <<>>, skip_temporary |-> FALSE]>>

\* The configuration of the repeated-runs scenario: one account subscribed
\* to user 1, whose content in "solo1" is that of "v1".
SoloAccounts == <<[subs |-> <<1>>, chats |-> <<>>, skip_temporary |-> TRUE]>>
SoloEpochs == {"solo1", "solo2"}

----------------------------------------------------------------------------
(* download_media: the ledger (table media of .media.db) and the paths.    *)

Row(source_type, timestamp, source_id, media_id) ==
    [source_type |-> source_type, timestamp |-> timestamp,
     source_id |-> source_id, media_id |-> media_id]

\* A store: does the user directory exist, does .media.db, does the table,
\* and the committed rows in insertion order.
NoStore == [dir |-> FALSE, file |-> FALSE, table |-> FALSE, rows |-> <<>>]

\* SELECT * FROM media WHERE source_type = ? AND source_id = ? AND media_id = ?
SelectKey_WrongColumn(rows, source_type, source_id, media_id) ==
    \E i \in 1..Len(rows) :
        /\ rows[i].source_type = source_type
        /\ rows[i].source_id = source_id
        /\ rows[i].media_id = source_id

SelectKey_Nothing(rows, source_type, source_id, media_id) == FALSE

SelectKey(rows, source_type, source_id, media_id) ==
    \E i \in 1..Len(rows) :
        /\ rows[i].source_type = source_type
        /\ rows[i].source_id = source_id
        /\ rows[i].media_id = media_id

\* INSERT INTO media VALUES (?, ?, ?, ?) under PRIMARY KEY (source_type,
\* source_id, media_id): [err, rows].
InsertRow(rows, row) ==
    IF \E i \in 1..Len(rows) :
          /\ rows[i].source_type = row.source_type
          /\ rows[i].source_id = row.source_id
          /\ rows[i].media_id = row.media_id
    THEN [err |-> "IntegrityError", rows |-> rows]
    ELSE [err |-> "none", rows |-> Append(rows, row)]

\* SQL NULL / Python None where the other values are integers.
Null == 0 - 1

\* SELECT max(timestamp) FROM media WHERE source_type == "<type>": the
\* aggregate over the matching rows, NULL over no row.
RECURSIVE MaxTimestamp_AnyType(_, _, _, _)
MaxTimestamp_AnyType(rows, source_type, i, best) ==
    IF i > Len(rows) THEN best
    ELSE MaxTimestamp_AnyType(rows, source_type, i + 1,
             IF best = Null \/ rows[i].timestamp > best
             THEN rows[i].timestamp ELSE best)

RECURSIVE MaxTimestamp(_, _, _, _)
MaxTimestamp(rows, source_type, i, best) ==
    IF i > Len(rows) THEN best
    ELSE MaxTimestamp(rows, source_type, i + 1,
             IF rows[i].source_type = source_type
                /\ (best = Null \/ rows[i].timestamp > best)
             THEN rows[i].timestamp ELSE best)

\* sqlite3.connect(...) and the query: OperationalError when the database
\* file cannot be opened (no user directory) or the table is missing.
QueryHwm(store, source_type) ==
    IF ~store.dir \/ ~store.table
    THEN [err |-> "OperationalError", value |-> Null]
    ELSE [err |-> "none", value |-> MaxTimestamp(store.rows, source_type, 1, Null)]

\* last_post_timestamp = 0; try: ... fetchone()[0] or last_post_timestamp;
\* except sqlite3.OperationalError: pass
ReadHwm_Uncaught(store, source_type) ==
    LET q == QueryHwm(store, source_type)
    IN  [err |-> q.err, value |-> IF q.value = Null THEN 0 ELSE q.value]

ReadHwm(store, source_type) ==
    LET q == QueryHwm(store, source_type)
    IN  IF q.err = "OperationalError" THEN [err |-> "none", value |-> 0]
        ELSE [err |-> "none", value |-> IF q.value = Null THEN 0 ELSE q.value]

\* sqlite3.connect creates the database file where the directory exists.
Connected(store) == [store EXCEPT !.file = store.dir]

Ext_AnyType(file_type) ==
    CASE file_type = "photo" -> "jpg"
      [] file_type = "video" -> "mp4"
      [] file_type = "audio" -> "mp3"
      [] file_type = "gif" -> "mp4"
      [] OTHER -> "bin"

\* match media.file_type
Ext(file_type) ==
    CASE file_type = "photo" -> "jpg"
      [] file_type = "video" -> "mp4"
      [] file_type = "audio" -> "mp3"
      [] file_type = "gif" -> "mp4"
      [] OTHER -> None

\* creation_date.strftime("%Y-%m-%d")
Date(timestamp) == timestamp \div 2

\* A path under the user directory.  tok is "" but for a temporary file.
Path(kind, sub, date, id, text, ext, tok) ==
    [kind |-> kind, sub |-> sub, date |-> date, id |-> id, text |-> text,
     ext |-> ext, tok |-> tok]

\* {user_dir}/{source_type}/{file_type}s/{date}.{id}.{text}.{ext}
DestFile(media) ==
    Path(media.source_type, media.file_type, Date(media.created_at), media.id,
         media.text, Ext(media.file_type), "")

\* f'{dest_file.name}.{secrets.token_urlsafe(6)}.part'
TempFile_IsDest(dest, token) == dest

TempFile(dest, token) == [dest EXCEPT !.tok = token]

Tokens == {"t1", "t2"}

\* avatar.jpg / header.jpg and avatar-{timestamp}.jpg / header-{timestamp}.jpg
AssetFile(kind) == Path(kind, "", 0, 0, "", "jpg", "")
ArchivedAssetFile_NoStamp(kind, timestamp) == AssetFile(kind)

ArchivedAssetFile(kind, timestamp) == Path(kind, "", 0, timestamp, "", "jpg", "")

\* File contents: what was written, and how much of it.
Content(src, size) == [src |-> src, size |-> size]

Exists_Never(files, path) == FALSE

\* pathlib.Path.exists
Exists(files, path) == path \in DOMAIN files

WriteFile(files, path, content) ==
    [p \in DOMAIN files \cup {path} |-> IF p = path THEN content ELSE files[p]]

\* pathlib.Path.rename: the target is replaced.
RenameFile(files, from, to) ==
    [p \in (DOMAIN files \ {from}) \cup {to} |-> IF p = to THEN files[from] ELSE files[p]]

NoFiles == <<>>

----------------------------------------------------------------------------
(* The collections a walk is tried on.  Record i of a collection of n      *)
(* records carries timestamp n - i + 1: strictly decreasing.  `hole` is    *)
(* the number of a record without viewable media (0: none), `pinned` puts  *)
(* the oldest record first (a collection that is not in descending order). *)

WalkMedia(i, viewable) ==
    <<[id |-> 100 + i, type |-> "photo", can_view |-> viewable, url |-> i]>>

WalkPost(n, i, hole) ==
    [id |-> i, posted_at |-> n - i + 1, expired_at |-> None, author |-> 1,
     raw_text |-> "a", price |-> 0, preview |-> {},
     media |-> WalkMedia(i, i # hole)]

WalkColl(n, hole, pinned) ==
    IF pinned /\ n > 1
    THEN <<WalkPost(n, n, hole)>> \o [i \in 1..(n - 1) |-> WalkPost(n, i, hole)]
    ELSE [i \in 1..n |-> WalkPost(n, i, hole)]

WalkInputs ==
    [kind : {"posts", "archived"}, n : 0..MaxPosts, hole : {0, 1, 11},
     pinned : BOOLEAN, hwm : 0..(MaxPosts + 1), failAt : {0, 2}]

NoWalk == [done |-> FALSE]
NoQuery == [done |-> FALSE]
NoCall == [done |-> FALSE]

WalkIdle == wIn = NoWalk /\ wOut = NoWalk
HwmIdle == hIn = NoQuery /\ hOut = NoQuery
CallIdle == nIn = NoCall /\ nOut = NoCall

\* Nothing under the download root, no process running.
PassIdleIn(e) ==
    /\ passNo = 0 /\ epoch = e /\ acct = 0 /\ pc = "off"
    /\ fut = <<>> /\ user_medias = <<>> /\ dl = <<>> /\ mapIdx = 0
    /\ ledger = [u \in Users |-> NoStore]
    /\ fs = [u \in Users |-> NoFiles]
    /\ xfers = [u \in Users |-> <<>>]
    /\ hwmRead = [u \in Users |-> [t \in HwmTypes |-> 0]]
    /\ reported = {}

PassIdle == PassIdleIn("v1")

WalkInit ==
    /\ wIn \in {w \in WalkInputs : w.hole <= w.n /\ w.hwm <= w.n + 1
                                   /\ (w.pinned => w.n > 1 /\ w.failAt = 0)}
    /\ wOut = NoWalk
    /\ HwmIdle /\ CallIdle /\ PassIdle

\* get_post_media_by_id, from the first request on.
WalkPostsRun ==
    /\ ~wOut.done /\ wIn.kind = "posts"
    /\ wOut' = [done |-> TRUE,
                res |-> WalkPosts("posts", WalkColl(wIn.n, wIn.hole, wIn.pinned),
                                  wIn.hwm, FALSE, wIn.failAt)]
    /\ UNCHANGED <<wIn, hwmVars, normVars, passVars>>

\* get_archived_post_media_by_id, from the first request on.
WalkArchivedRun ==
    /\ ~wOut.done /\ wIn.kind = "archived"
    /\ wOut' = [done |-> TRUE,
                res |-> WalkPosts("archived", WalkColl(wIn.n, wIn.hole, wIn.pinned),
                                  wIn.hwm, FALSE, wIn.failAt)]
    /\ UNCHANGED <<wIn, hwmVars, normVars, passVars>>

WalkNext == WalkPostsRun \/ WalkArchivedRun

SpecWalk == WalkInit /\ [][WalkNext]_vars

----------------------------------------------------------------------------
(* The high-water-mark query on its own: every store over a small set of   *)
(* rows, every source type.                                                *)

\* Largest number of rows in a store handed to the query.
MaxRows == 2

HwmRowValues ==
    [source_type : {"posts", "stories", "avatar"}, timestamp : 1..3,
     source_id : {7}, media_id : {8, 9}]

HwmRowSeqs ==
    UNION {[1..n -> HwmRowValues] : n \in 0..MaxRows}

HwmStores ==
    {NoStore,
     [dir |-> TRUE, file |-> FALSE, table |-> FALSE, rows |-> <<>>],
     [dir |-> TRUE, file |-> TRUE, table |-> FALSE, rows |-> <<>>]}
    \cup {[dir |-> TRUE, file |-> TRUE, table |-> TRUE, rows |-> r] :
            r \in {q \in HwmRowSeqs :
                     \A i, j \in 1..Len(q) :
                        (q[i].source_type = q[j].source_type
                         /\ q[i].media_id = q[j].media_id) => i = j}}

HwmInit ==
    /\ hIn \in [store : HwmStores, source_type : HwmTypes]
    /\ hOut = NoQuery
    /\ WalkIdle /\ CallIdle /\ PassIdle

\* The head of a fetch: connect, query, `or 0`, except OperationalError.
HwmRun ==
    /\ ~hOut.done
    /\ hOut' = [done |-> TRUE, res |-> ReadHwm(hIn.store, hIn.source_type),
                store |-> Connected(hIn.store)]
    /\ UNCHANGED <<hIn, walkVars, normVars, passVars>>

HwmNext == HwmRun

SpecHwm == HwmInit /\ [][HwmNext]_vars

----------------------------------------------------------------------------
(* __main__.py: main() and download(), one process per pass.               *)

\* Number of processes (passes of main over the accounts) in a behaviour.
MaxPasses == 2
MaxSoloPasses == 3

\* Runs of the program a behaviour may hold.
PassBound == IF epoch \in SoloEpochs THEN MaxSoloPasses ELSE MaxPasses

\* The remote content a new run may find, after the content of the last run.
NextEpochs ==
    CASE epoch = "e2e" -> {"e2e"}
      [] epoch \in SoloEpochs -> {epoch, "solo2"}
      [] OTHER -> {epoch, "v2"}

\* ThreadPoolExecutor(max_workers=3), for the fetch phase and for the
\* download phase.
MaxWorkers == 3

\* configure_clients: the clients of the configuration in use.
Configured ==
    CASE epoch = "e2e" -> E2EAccounts
      [] epoch \in SoloEpochs -> SoloAccounts
      [] OTHER -> Accounts

Account == Configured[acct]

FetchPcs == {"posts", "archived", "messages", "highlights", "stories"}

NextStage(stage, skip_temporary) ==
    CASE stage = "posts" -> "archived"
      [] stage = "archived" -> "messages"
      [] stage = "messages" -> "highlights"
      [] stage = "highlights" -> IF skip_temporary THEN "check" ELSE "stories"
      [] OTHER -> "check"

\* A future of the fetch phase: the dict value it is stored under (user),
\* the argument the task was submitted with, its state and its outcome.
Task(user, arg, stage) ==
    [user |-> user, arg |-> arg, stage |-> stage, st |-> "pending", read |-> FALSE,
     hwm |-> 0, err |-> "none", res |-> <<>>]

\* {executor.submit(client.get_..._by_id, user.id): user for user in subscriptions}
SubTasks(stage, subs) ==
    [i \in 1..Len(subs) |-> Task(subs[i], PyInt(subs[i]), stage)]

\* {executor.submit(client.get_message_media_by_id, user):
\*  client.get_user_details(user) for user in chats}; w[i] is the user the
\* remote answers the lookup of chats[i] with.
MessageTasks(chats, w, n) ==
    [i \in 1..n |-> Task(w[i], PyUser(chats[i]), "messages")]

Busy(tasks, states) == Cardinality({i \in 1..Len(tasks) : tasks[i].st \in states})

HasKey_Never(um, u) == FALSE

\* User.__hash__ / User.__eq__: two User values with one id are one key.
HasKey(um, u) == \E i \in 1..Len(um) : um[i].user = u

ResetIfEmpty_Always(um, u) ==
    IF HasKey(um, u)
    THEN [i \in 1..Len(um) |->
             IF um[i].user = u THEN [um[i] EXCEPT !.medias = <<>>] ELSE um[i]]
    ELSE Append(um, [user |-> u, medias |-> <<>>])

\* media_list = user_medias.get(key); if not media_list: user_medias[key] = []
ResetIfEmpty(um, u) ==
    IF HasKey(um, u)
    THEN [i \in 1..Len(um) |->
             IF um[i].user = u /\ Len(um[i].medias) = 0
             THEN [um[i] EXCEPT !.medias = <<>>] ELSE um[i]]
    ELSE Append(um, [user |-> u, medias |-> <<>>])

\* user_medias[key] += future.result()
Extend(um, u, res) ==
    [i \in 1..Len(um) |->
        IF um[i].user = u THEN [um[i] EXCEPT !.medias = @ \o res] ELSE um[i]]

\* get_subscriptions / get_chats on a failed request or decode: the
\* exception that leaves the function.  A RequestException of a timeout, a
\* connection error or exhausted retries carries no response, and
\* get_subscriptions formats e.response.status_code into its message.
ListingRaises(which, kind) ==
    IF which = "subscriptions" /\ kind = "no_response"
    THEN "AttributeError" ELSE "ScrapingException"

\* download()'s `except ScrapingException` handler: it reads
\* request_exception.response.status_code when the context is a
\* RequestException.
ListingHandler(exc, kind) ==
    IF exc # "ScrapingException" THEN exc
    ELSE IF kind = "no_response" THEN "AttributeError"
    ELSE "handled"

\* What a fetch task returns once its high-water mark is read.
FetchResult(stage, arg, hwm, coll, skip_temporary) ==
    CASE stage = "posts" -> LET r == WalkPosts("posts", coll, hwm, skip_temporary, 0)
                            IN  [err |-> r.err, items |-> r.items]
      [] stage = "archived" -> LET r == WalkPosts("archived", coll, hwm, skip_temporary, 0)
                               IN  [err |-> r.err, items |-> r.items]
      [] stage = "messages" -> get_message_media(coll, hwm, arg)
      [] stage = "highlights" -> get_highlight_media(coll, hwm)
      [] OTHER -> get_story_media(coll, hwm)

\* What the remote serves for the task's URL.  The URL of a task that was
\* handed a User struct holds the struct's repr: the remote may resolve it
\* to nothing.
Served(stage, arg, e) ==
    CASE stage = "posts" -> {RemotePosts(arg.v, e)}
      [] stage = "archived" -> {RemoteArchived(arg.v, e)}
      [] stage = "messages" ->
           IF arg.tag = "int" THEN {RemoteMessages(arg.v, e)}
           ELSE {<<>>, RemoteMessages(arg.v, e)}
      [] stage = "highlights" -> {RemoteHighlights(arg.v, e)}
      [] OTHER -> {RemoteStories(arg.v, e)}

NoPath == Path("", "", 0, 0, "", "", "")

\* A download_media(user, medias) call submitted by executor.map.
DlTask(entry) ==
    [user |-> entry.user, medias |-> entry.medias, pc |-> "pending", i |-> 1,
     txn |-> <<>>, tmp |-> NoPath, last |-> "none", err |-> "none"]

Fails_LogAndContinue(task, pcNew, exc) ==
    [task EXCEPT !.pc = "select", !.err = exc, !.tmp = NoPath]

\* The exception leaves download_media: contextlib.closing closes the
\* connection, the uncommitted rows are gone.
Fails(task, pcNew, exc) ==
    [task EXCEPT !.pc = pcNew, !.err = exc, !.txn = <<>>, !.tmp = NoPath]

Key(source_type, source_id, media_id) ==
    [source_type |-> source_type, source_id |-> source_id, media_id |-> media_id]

KeyOf(media) == Key(media.source_type, media.source_id, media.id)

Count(log, k, what) == IF k \in DOMAIN log THEN log[k][what] ELSE 0

Logged(log, k, what) ==
    [q \in DOMAIN log \cup {k} |->
        IF q = k THEN [req |-> Count(log, k, "req") + (IF what = "req" THEN 1 ELSE 0),
                       wr |-> Count(log, k, "wr") + (IF what = "wr" THEN 1 ELSE 0)]
        ELSE log[q]]

\* The responses session.get(media.url, stream=True) can end with: an
\* exception, or a status and a content-length header.
GetOutcomes(media) ==
    {[kind |-> "exception", clen |-> 0],
     [kind |-> "ok", clen |-> BodySize(media.url)],
     [kind |-> "http_error", clen |-> 0],
     [kind |-> "http_error", clen |-> BodySize(media.url)]}

----------------------------------------------------------------------------
(* The actions of a pass.                                                   *)

Fresh ==
    /\ fut' = <<>> /\ user_medias' = <<>> /\ dl' = <<>> /\ mapIdx' = 0

\* The process starts (a new run, or the next iteration of --run-forever);
\* the remote content may have changed since the last one.
StartProcess ==
    /\ pc \in {"off", "finished", "crashed", "exited"}
    /\ passNo < PassBound
    /\ passNo' = passNo + 1
    /\ epoch' \in NextEpochs
    /\ acct' = 1 /\ pc' = "list" /\ reported' = {}
    /\ xfers' = [u \in Users |-> <<>>]
    /\ Fresh
    /\ UNCHANGED <<walkVars, hwmVars, normVars, ledger, fs, hwmRead>>

\* The main thread enters a fetch stage: its tasks are submitted to the
\* pool of the fetch phase, which holds the futures of the earlier stages.
Enter(stage) ==
    IF stage = "check" THEN pc' = "check" /\ fut' = fut
    ELSE IF stage = "messages"
    THEN \E w \in [1..Len(Account.chats) -> Users], k \in 0..Len(Account.chats) :
            IF k = 0
            THEN /\ pc' = "messages"
                 /\ fut' = fut \o MessageTasks(Account.chats, w, Len(Account.chats))
            ELSE /\ pc' = "abort"
                 /\ fut' = fut \o MessageTasks(Account.chats, w, k)
    ELSE pc' = stage /\ fut' = fut \o SubTasks(stage, Account.subs)

\* download(): get_subscriptions() and get_chats() both succeed.
ListOk ==
    /\ pc = "list"
    /\ user_medias' = <<>>
    /\ Enter("posts")
    /\ UNCHANGED <<walkVars, hwmVars, normVars, passNo, epoch, acct, dl, mapIdx, ledger, fs,
                   xfers, hwmRead, reported>>

\* download(): one of the two listings fails.
ListFail ==
    /\ pc = "list"
    /\ \E which \in {"subscriptions", "chats"},
          kind \in {"http_error", "no_response", "decode_error"} :
          LET out == ListingHandler(ListingRaises(which, kind), kind) IN
          IF out = "handled"
          THEN /\ pc' = "returned"
               /\ reported' = reported \cup {[acct |-> acct, scope |-> "account", user |-> 0]}
          ELSE /\ pc' = "crashed"
               /\ reported' = reported
    /\ UNCHANGED <<walkVars, hwmVars, normVars, passNo, epoch, acct, fut, user_medias, dl,
                   mapIdx, ledger, fs, xfers, hwmRead>>

\* A worker thread takes a submitted fetch task.
TaskStart(t) ==
    /\ pc \in FetchPcs \cup {"abort"}
    /\ fut[t].st = "pending"
    /\ Busy(fut, {"running"}) < MaxWorkers
    /\ fut' = [fut EXCEPT ![t].st = "running"]
    /\ UNCHANGED <<walkVars, hwmVars, normVars, passNo, epoch, acct, pc, user_medias, dl,
                   mapIdx, ledger, fs, xfers, hwmRead, reported>>

\* get_*_media_by_id runs: user details, high-water mark, enumeration.
TaskRun(t) ==
    /\ pc \in FetchPcs \cup {"abort"}
    /\ fut[t].st = "running"
    /\ LET u == fut[t].user
           stage == fut[t].stage
       IN \E fail \in {"none", "details", "transport"}, coll \in Served(stage, fut[t].arg, epoch) :
            IF fail = "details"
            THEN /\ fut' = [fut EXCEPT ![t].st = "failed", ![t].err = "ScrapingException"]
                 /\ UNCHANGED <<ledger, hwmRead>>
            ELSE LET h == ReadHwm(ledger[u], stage) IN
                 IF h.err # "none"
                 THEN /\ fut' = [fut EXCEPT ![t].st = "failed", ![t].err = h.err]
                      /\ UNCHANGED <<ledger, hwmRead>>
                 ELSE /\ ledger' = [ledger EXCEPT ![u] = Connected(@)]
                      /\ hwmRead' = [hwmRead EXCEPT ![u][stage] = h.value]
                      /\ IF fail = "transport"
                         THEN fut' = [fut EXCEPT ![t].st = "failed", ![t].read = TRUE,
                                                 ![t].hwm = h.value,
                                                 ![t].err = "ScrapingException"]
                         ELSE LET r == FetchResult(stage, fut[t].arg, h.value, coll,
                                                   Account.skip_temporary)
                              IN  fut' = [fut EXCEPT
                                            ![t].st = IF r.err = "none" THEN "done" ELSE "failed",
                                            ![t].read = TRUE,
                                            ![t].hwm = h.value,
                                            ![t].err = r.err,
                                            ![t].res = r.items]
    /\ UNCHANGED <<walkVars, hwmVars, normVars, passNo, epoch, acct, pc, user_medias, dl,
                   mapIdx, fs, xfers, reported>>

\* as_completed yields a finished future: its result is added to
\* user_medias, or future.result() raises in the main thread.
Collect(t) ==
    /\ pc \in FetchPcs
    /\ fut[t].st \in {"done", "failed"}
    /\ LET um == ResetIfEmpty(user_medias, fut[t].user) IN
       IF fut[t].st = "done"
       THEN /\ user_medias' = Extend(um, fut[t].user, fut[t].res)
            /\ UNCHANGED <<pc, reported>>
       ELSE /\ user_medias' = um
            /\ pc' = "abort"
            /\ reported' = reported \cup {[acct |-> acct, scope |-> fut[t].stage,
                                           user |-> fut[t].arg.v]}
    /\ fut' = [fut EXCEPT ![t].st = "collected", ![t].res = <<>>]
    /\ UNCHANGED <<walkVars, hwmVars, normVars, passNo, epoch, acct, dl, mapIdx, ledger, fs,
                   xfers, hwmRead>>

\* The as_completed loop of a stage ends: the next stage is entered.
StageEnd_NoJoin ==
    /\ pc \in FetchPcs
    /\ Enter(NextStage(pc, Account.skip_temporary))
    /\ UNCHANGED <<walkVars, hwmVars, normVars, passNo, epoch, acct, user_medias, dl, mapIdx,
                   ledger, fs, xfers, hwmRead, reported>>

StageEnd ==
    /\ pc \in FetchPcs
    /\ \A t \in 1..Len(fut) : fut[t].st = "collected"
    /\ Enter(NextStage(pc, Account.skip_temporary))
    /\ UNCHANGED <<walkVars, hwmVars, normVars, passNo, epoch, acct, user_medias, dl, mapIdx,
                   ledger, fs, xfers, hwmRead, reported>>

\* An exception left the `with ThreadPoolExecutor` block of the fetch
\* phase: its exit waits for every submitted task, then the exception
\* leaves download() and main().
AbortJoin ==
    /\ pc = "abort"
    /\ \A t \in 1..Len(fut) : fut[t].st \notin {"pending", "running"}
    /\ pc' = "crashed"
    /\ UNCHANGED <<walkVars, hwmVars, normVars, passNo, epoch, acct, fut, user_medias, dl,
                   mapIdx, ledger, fs, xfers, hwmRead, reported>>

\* `if not any(...)`: return, or open the download pool and map
\* download_media over the dict.
CheckMedias ==
    /\ pc = "check"
    /\ IF \A i \in 1..Len(user_medias) : Len(user_medias[i].medias) = 0
       THEN pc' = "returned" /\ UNCHANGED <<dl, mapIdx>>
       ELSE /\ pc' = "download"
            /\ dl' = [i \in 1..Len(user_medias) |-> DlTask(user_medias[i])]
            /\ mapIdx' = 1
    /\ UNCHANGED <<walkVars, hwmVars, normVars, passNo, epoch, acct, fut, user_medias, ledger,
                   fs, xfers, hwmRead, reported>>

\* download_media starts in a worker thread: `if not medias: return`,
\* mkdir, connect, CREATE TABLE / INDEX IF NOT EXISTS.
DlStart(k) ==
    /\ pc \in {"download", "dl_abort"}
    /\ dl[k].pc = "pending"
    /\ Busy([i \in 1..Len(dl) |-> [st |-> dl[i].pc]],
            {"avatar", "header", "select", "stream"}) < MaxWorkers
    /\ IF Len(dl[k].medias) = 0
       THEN dl' = [dl EXCEPT ![k].pc = "done"] /\ UNCHANGED ledger
       ELSE /\ dl' = [dl EXCEPT ![k].pc = "avatar"]
            /\ ledger' = [ledger EXCEPT ![dl[k].user] =
                            [@ EXCEPT !.dir = TRUE, !.file = TRUE, !.table = TRUE]]
    /\ UNCHANGED <<walkVars, hwmVars, normVars, passNo, epoch, acct, pc, fut, user_medias,
                   mapIdx, fs, xfers, hwmRead, reported>>

\* The avatar block, then the header block.
DlAsset(k) ==
    /\ pc \in {"download", "dl_abort"}
    /\ dl[k].pc \in {"avatar", "header"}
    /\ LET u == dl[k].user
           kind == dl[k].pc
           after == IF kind = "avatar" THEN "header" ELSE "select"
           rows == ledger[u].rows \o dl[k].txn
           stamp == AssetStamp(u, kind, epoch)
           current == MaxTimestamp(rows, kind, 1, Null)
           dest == AssetFile(kind)
       IN IF AssetUrl(u, kind) = None
          THEN dl' = [dl EXCEPT ![k].pc = after] /\ UNCHANGED fs
          ELSE \E ok \in BOOLEAN :
                 IF ~ok
                 THEN dl' = [dl EXCEPT ![k] = Fails(@, "exit", "SystemExit")] /\ UNCHANGED fs
                 ELSE IF SelectKey(rows, kind, stamp, stamp)
                 THEN dl' = [dl EXCEPT ![k].pc = after] /\ UNCHANGED fs
                 ELSE IF current # Null /\ ~Exists(fs[u], dest)
                 THEN /\ dl' = [dl EXCEPT ![k] = Fails(@, "crash", "FileNotFoundError")]
                      /\ UNCHANGED fs
                 ELSE LET kept == IF current # Null
                                  THEN RenameFile(fs[u], dest, ArchivedAssetFile(kind, current))
                                  ELSE fs[u]
                          ins == InsertRow(rows, Row(kind, stamp, stamp, stamp))
                      IN  /\ fs' = [fs EXCEPT ![u] =
                                      WriteFile(kept, dest, Content(stamp, BodySize(stamp)))]
                          /\ dl' = IF ins.err # "none"
                                   THEN [dl EXCEPT ![k] = Fails(@, "crash", ins.err)]
                                   ELSE [dl EXCEPT ![k].pc = after,
                                                   ![k].txn = Append(@, Row(kind, stamp, stamp, stamp))]
    /\ UNCHANGED <<walkVars, hwmVars, normVars, passNo, epoch, acct, pc, fut, user_medias,
                   mapIdx, ledger, xfers, hwmRead, reported>>

\* One round of `for media in medias`, up to the open of the temporary
\* file: the SELECT, the extension, the paths, session.get, the
\* exists-and-same-size test, raise_for_status.
DlItem(k) ==
    /\ pc \in {"download", "dl_abort"}
    /\ dl[k].pc = "select"
    /\ dl[k].i <= Len(dl[k].medias)
    /\ LET u == dl[k].user
           media == dl[k].medias[dl[k].i]
           rows == ledger[u].rows \o dl[k].txn
           dest == DestFile(media)
           row == Row(media.source_type, media.created_at, media.source_id, media.id)
       IN IF SelectKey(rows, media.source_type, media.source_id, media.id)
          THEN /\ dl' = [dl EXCEPT ![k].i = @ + 1, ![k].last = "skipped"]
               /\ UNCHANGED <<fs, xfers>>
          ELSE IF Ext(media.file_type) = None
          THEN /\ dl' = [dl EXCEPT ![k].i = @ + 1, ![k].last = "unknown"]
               /\ UNCHANGED <<fs, xfers>>
          ELSE IF media.text = None
          THEN /\ dl' = [dl EXCEPT ![k] = Fails(@, "crash", "TypeError")]
               /\ UNCHANGED <<fs, xfers>>
          ELSE \E r \in GetOutcomes(media), token \in Tokens :
                 /\ xfers' = [xfers EXCEPT ![u] = Logged(@, KeyOf(media), "req")]
                 /\ IF r.kind = "exception"
                    THEN /\ dl' = [dl EXCEPT ![k] = Fails(@, "exit", "SystemExit")]
                         /\ UNCHANGED fs
                    ELSE IF Exists(fs[u], dest) /\ fs[u][dest].size = r.clen
                    THEN LET ins == InsertRow(rows, row) IN
                         /\ dl' = IF ins.err # "none"
                                  THEN [dl EXCEPT ![k] = Fails(@, "crash", ins.err)]
                                  ELSE [dl EXCEPT ![k].i = @ + 1, ![k].last = "existing",
                                                  ![k].txn = Append(@, row)]
                         /\ UNCHANGED fs
                    ELSE IF r.kind = "http_error"
                    THEN /\ dl' = [dl EXCEPT ![k] = Fails(@, "exit", "SystemExit")]
                         /\ UNCHANGED fs
                    ELSE /\ dl' = [dl EXCEPT ![k].pc = "stream",
                                             ![k].tmp = TempFile(dest, token)]
                         /\ fs' = [fs EXCEPT ![u] =
                                     WriteFile(@, TempFile(dest, token), Content(media.url, 0))]
    /\ UNCHANGED <<walkVars, hwmVars, normVars, passNo, epoch, acct, pc, fut, user_medias,
                   mapIdx, ledger, hwmRead, reported>>

\* The body is written to the temporary file chunk by chunk, the file is
\* renamed into its final path, the row is inserted.
DlStream_RowOnly(k) ==
    /\ pc \in {"download", "dl_abort"}
    /\ dl[k].pc = "stream"
    /\ LET u == dl[k].user
           media == dl[k].medias[dl[k].i]
           row == Row(media.source_type, media.created_at, media.source_id, media.id)
       IN  /\ fs' = [fs EXCEPT ![u] =
                       WriteFile(@, dl[k].tmp, Content(media.url, BodySize(media.url)))]
           /\ xfers' = [xfers EXCEPT ![u] = Logged(@, KeyOf(media), "wr")]
           /\ dl' = [dl EXCEPT ![k].pc = "select", ![k].i = @ + 1, ![k].tmp = NoPath,
                               ![k].last = "downloaded", ![k].txn = Append(@, row)]
    /\ UNCHANGED <<walkVars, hwmVars, normVars, passNo, epoch, acct, pc, fut, user_medias,
                   mapIdx, ledger, hwmRead, reported>>

DlStream_Autocommit(k) ==
    /\ pc \in {"download", "dl_abort"}
    /\ dl[k].pc = "stream"
    /\ LET u == dl[k].user
           media == dl[k].medias[dl[k].i]
           rows == ledger[u].rows \o dl[k].txn
           row == Row(media.source_type, media.created_at, media.source_id, media.id)
           ins == InsertRow(rows, row)
           written == WriteFile(fs[u], dl[k].tmp, Content(media.url, BodySize(media.url)))
       IN  /\ fs' = [fs EXCEPT ![u] = RenameFile(written, dl[k].tmp, DestFile(media))]
           /\ xfers' = [xfers EXCEPT ![u] = Logged(@, KeyOf(media), "wr")]
           /\ IF ins.err # "none"
              THEN /\ dl' = [dl EXCEPT ![k] = Fails(@, "crash", ins.err)]
                   /\ UNCHANGED ledger
              ELSE /\ dl' = [dl EXCEPT ![k].pc = "select", ![k].i = @ + 1,
                                       ![k].tmp = NoPath, ![k].last = "downloaded"]
                   /\ ledger' = [ledger EXCEPT ![u].rows = Append(@, row)]
    /\ UNCHANGED <<walkVars, hwmVars, normVars, passNo, epoch, acct, pc, fut, user_medias,
                   mapIdx, hwmRead, reported>>

DlStream(k) ==
    /\ pc \in {"download", "dl_abort"}
    /\ dl[k].pc = "stream"
    /\ LET u == dl[k].user
           media == dl[k].medias[dl[k].i]
           rows == ledger[u].rows \o dl[k].txn
           row == Row(media.source_type, media.created_at, media.source_id, media.id)
           ins == InsertRow(rows, row)
           written == WriteFile(fs[u], dl[k].tmp, Content(media.url, BodySize(media.url)))
       IN  /\ fs' = [fs EXCEPT ![u] = RenameFile(written, dl[k].tmp, DestFile(media))]
           /\ xfers' = [xfers EXCEPT ![u] = Logged(@, KeyOf(media), "wr")]
           /\ dl' = IF ins.err # "none"
                    THEN [dl EXCEPT ![k] = Fails(@, "crash", ins.err)]
                    ELSE [dl EXCEPT ![k].pc = "select", ![k].i = @ + 1, ![k].tmp = NoPath,
                                    ![k].last = "downloaded", ![k].txn = Append(@, row)]
    /\ UNCHANGED <<walkVars, hwmVars, normVars, passNo, epoch, acct, pc, fut, user_medias,
                   mapIdx, ledger, hwmRead, reported>>

\* The transfer breaks after n chunks: requests raises, `exit(1)`.
DlStreamFail(k) ==
    /\ pc \in {"download", "dl_abort"}
    /\ dl[k].pc = "stream"
    /\ LET u == dl[k].user
           media == dl[k].medias[dl[k].i]
       IN  \E n \in 0..(BodySize(media.url) - 1) :
             /\ fs' = [fs EXCEPT ![u] = WriteFile(@, dl[k].tmp, Content(media.url, n))]
             /\ xfers' = [xfers EXCEPT ![u] = Logged(@, KeyOf(media), "wr")]
             /\ dl' = [dl EXCEPT ![k] = Fails(@, "exit", "SystemExit")]
    /\ UNCHANGED <<walkVars, hwmVars, normVars, passNo, epoch, acct, pc, fut, user_medias,
                   mapIdx, ledger, hwmRead, reported>>

\* database.commit() after the loop.
DlCommit(k) ==
    /\ pc \in {"download", "dl_abort"}
    /\ dl[k].pc = "select"
    /\ dl[k].i > Len(dl[k].medias)
    /\ ledger' = [ledger EXCEPT ![dl[k].user].rows = @ \o dl[k].txn]
    /\ dl' = [dl EXCEPT ![k].pc = "done", ![k].txn = <<>>]
    /\ UNCHANGED <<walkVars, hwmVars, normVars, passNo, epoch, acct, pc, fut, user_medias,
                   mapIdx, fs, xfers, hwmRead, reported>>

\* executor.map yields the next result in submission order.
MapYield ==
    /\ pc = "download"
    /\ mapIdx <= Len(dl)
    /\ dl[mapIdx].pc = "done"
    /\ mapIdx' = mapIdx + 1
    /\ UNCHANGED <<walkVars, hwmVars, normVars, passNo, epoch, acct, pc, fut, user_medias, dl,
                   ledger, fs, xfers, hwmRead, reported>>

\* The next result is an exception: it is raised in the main thread, map
\* cancels the futures no worker has taken.
MapRaise ==
    /\ pc = "download"
    /\ mapIdx <= Len(dl)
    /\ dl[mapIdx].pc \in {"exit", "crash"}
    /\ pc' = "dl_abort"
    /\ dl' = [i \in 1..Len(dl) |->
                IF dl[i].pc = "pending" THEN [dl[i] EXCEPT !.pc = "cancelled"] ELSE dl[i]]
    /\ reported' = reported \cup {[acct |-> acct, scope |-> "download",
                                   user |-> dl[mapIdx].user]}
    /\ UNCHANGED <<walkVars, hwmVars, normVars, passNo, epoch, acct, fut, user_medias, mapIdx,
                   ledger, fs, xfers, hwmRead>>

\* Every result was yielded: download() returns.
MapEnd ==
    /\ pc = "download"
    /\ mapIdx > Len(dl)
    /\ pc' = "returned"
    /\ UNCHANGED <<walkVars, hwmVars, normVars, passNo, epoch, acct, fut, user_medias, dl,
                   mapIdx, ledger, fs, xfers, hwmRead, reported>>

\* The download pool's exit has waited for the running tasks: SystemExit
\* ends the process with status 1, another exception with a traceback.
DlAbortJoin ==
    /\ pc = "dl_abort"
    /\ \A i \in 1..Len(dl) : dl[i].pc \in {"done", "exit", "crash", "cancelled"}
    /\ pc' = IF dl[mapIdx].pc = "exit" THEN "exited" ELSE "crashed"
    /\ UNCHANGED <<walkVars, hwmVars, normVars, passNo, epoch, acct, fut, user_medias, dl,
                   mapIdx, ledger, fs, xfers, hwmRead, reported>>

\* main(): `for client in clients: download(client)`.
NextAccount ==
    /\ pc = "returned"
    /\ IF acct < Len(Configured)
       THEN acct' = acct + 1 /\ pc' = "list"
       ELSE acct' = acct /\ pc' = "finished"
    /\ Fresh
    /\ UNCHANGED <<walkVars, hwmVars, normVars, passNo, epoch, ledger, fs, xfers, hwmRead,
                   reported>>

Next ==
    \/ StartProcess
    \/ ListOk
    \/ ListFail
    \/ \E t \in 1..Len(fut) : TaskStart(t)
    \/ \E t \in 1..Len(fut) : TaskRun(t)
    \/ \E t \in 1..Len(fut) : Collect(t)
    \/ StageEnd
    \/ AbortJoin
    \/ CheckMedias
    \/ \E k \in 1..Len(dl) : DlStart(k)
    \/ \E k \in 1..Len(dl) : DlAsset(k)
    \/ \E k \in 1..Len(dl) : DlItem(k)
    \/ \E k \in 1..Len(dl) : DlStream(k)
    \/ \E k \in 1..Len(dl) : DlStreamFail(k)
    \/ \E k \in 1..Len(dl) : DlCommit(k)
    \/ MapYield
    \/ MapRaise
    \/ MapEnd
    \/ DlAbortJoin
    \/ NextAccount

Init == WalkIdle /\ HwmIdle /\ CallIdle /\ PassIdle

Spec == Init /\ [][Next]_vars

\* The end-to-end scenario: the same program against the remote and the
\* configuration of users 4 and 5.
InitE2E == WalkIdle /\ HwmIdle /\ CallIdle /\ PassIdleIn("e2e")

SpecE2E == InitE2E /\ [][Next]_vars

\* The repeated-runs scenario: the same program, up to MaxSoloPasses runs
\* against user 1 alone.
InitSolo == WalkIdle /\ HwmIdle /\ CallIdle /\ PassIdleIn("solo1")

SpecSolo == InitSolo /\ [][Next]_vars

----------------------------------------------------------------------------
(* C3: offset-paged early stop.  For a collection with strictly decreasing *)
(* timestamps and high-water mark H, a walk that no transport failure ends *)
(* requests no offset beyond the page holding the first record with        *)
(* timestamp <= H, and returns the normalization of exactly the records    *)
(* with timestamp > H, in order.                                           *)

StrictlyDecreasing(coll) ==
    \A i \in 1..(Len(coll) - 1) : coll[i].posted_at > coll[i + 1].posted_at

\* The records above the mark, selected without reference to the walk.
RECURSIVE NormalizeAbove(_, _, _, _)
NormalizeAbove(kind, coll, hwm, i) ==
    IF i > Len(coll) THEN <<>>
    ELSE (IF coll[i].posted_at > hwm
          THEN NormalizePost(kind, coll[i], FALSE).items ELSE <<>>)
         \o NormalizeAbove(kind, coll, hwm, i + 1)

FirstAtOrBelow(coll, hwm) ==
    LET S == {i \in 1..Len(coll) : coll[i].posted_at <= hwm}
    IN  IF S = {} THEN 0 ELSE CHOOSE i \in S : \A j \in S : i <= j

----------------------------------------------------------------------------
(* C5: the high-water mark of a user and source type with no prior entry   *)
(* (no user directory, no ledger file, no table, or no row of that source  *)
(* type) is read as 0 and the read raises nothing.                         *)

NoPriorEntry(store, source_type) ==
    \/ ~store.dir \/ ~store.file \/ ~store.table
    \/ \A i \in 1..Len(store.rows) : store.rows[i].source_type # source_type

C5_ZeroWhenUnknown ==
    (hOut.done /\ NoPriorEntry(hIn.store, hIn.source_type)) =>
        hOut.res.err = "none" /\ hOut.res.value = 0

\* The query ran where the user directory exists and the ledger file does
\* not: it answered 0 and left an empty database file behind.
C5_Witness ==
    /\ hOut.done /\ hIn.store.dir /\ ~hIn.store.file
    /\ hOut.res.value = 0 /\ hOut.res.err = "none" /\ hOut.store.file

----------------------------------------------------------------------------
(* C1: a media item whose key (source type, source record id, media id) is *)
(* in the committed ledger of its remote user is never downloaded again:   *)
(* no step adds a transfer request or a file write for it.                 *)

CommittedKeys(u) ==
    {Key(ledger[u].rows[i].source_type, ledger[u].rows[i].source_id,
         ledger[u].rows[i].media_id) : i \in 1..Len(ledger[u].rows)}

C1_NoRedownload ==
    [][\A u \in Users : \A key \in CommittedKeys(u) :
          /\ Count(xfers'[u], key, "req") <= Count(xfers[u], key, "req")
          /\ Count(xfers'[u], key, "wr") <= Count(xfers[u], key, "wr")]_vars

\* download_media has just passed over an item that an earlier pass
\* committed: the running process has sent no request for it.
C1_Witness ==
    \E k \in 1..Len(dl) :
        /\ dl[k].last = "skipped" /\ dl[k].pc = "select" /\ dl[k].i > 1
        /\ LET key == KeyOf(dl[k].medias[dl[k].i - 1]) IN
             /\ key \in CommittedKeys(dl[k].user)
             /\ Count(xfers[dl[k].user], key, "req") = 0
             /\ Count(xfers[dl[k].user], key, "wr") = 0
             /\ \E f \in DOMAIN fs[dl[k].user] :
                   f.tok = "" /\ f.id = dl[k].medias[dl[k].i - 1].id

----------------------------------------------------------------------------
(* C2: recording one key twice, by duplicate items of one download_media   *)
(* call or by two passes, leaves one ledger row for the key, and the       *)
(* second attempt raises nothing.                                          *)

RowsOfKey(rows, key) ==
    {i \in 1..Len(rows) : Key(rows[i].source_type, rows[i].source_id,
                              rows[i].media_id) = key}

C2_RecordIdempotent ==
    \A k \in 1..Len(dl) :
        LET rows == ledger[dl[k].user].rows \o dl[k].txn IN
        /\ dl[k].err # "IntegrityError"
        /\ \A i \in 1..Len(rows) :
              Cardinality(RowsOfKey(rows, Key(rows[i].source_type, rows[i].source_id,
                                              rows[i].media_id))) = 1
        /\ (dl[k].last = "skipped" /\ dl[k].pc = "select") =>
              Cardinality(RowsOfKey(rows, KeyOf(dl[k].medias[dl[k].i - 1]))) = 1

\* The second of two items with one key, in one call: passed over, the row
\* of the first one still uncommitted.
C2_Witness ==
    \E k \in 1..Len(dl) :
        /\ dl[k].last = "skipped" /\ dl[k].pc = "select"
        /\ Cardinality(RowsOfKey(dl[k].txn, KeyOf(dl[k].medias[dl[k].i - 1]))) = 1
        /\ RowsOfKey(ledger[dl[k].user].rows, KeyOf(dl[k].medias[dl[k].i - 1])) = {}

----------------------------------------------------------------------------
(* C4: the high-water mark a fetch task reads for a user and one of the    *)
(* source types posts, archived, messages, stories is the largest          *)
(* timestamp among the user's committed rows of that type, 0 without such  *)
(* a row; the values read for one user and type never decrease.            *)

LargestTimestamp(rows, source_type) ==
    LET S == {rows[i].timestamp : i \in {j \in 1..Len(rows) :
                                           rows[j].source_type = source_type}}
    IN  IF S = {} THEN 0 ELSE CHOOSE m \in S : \A x \in S : m >= x

HwmIsLargest ==
    pc \in FetchPcs \cup {"abort", "check"} =>
        \A t \in 1..Len(fut) :
            (fut[t].read /\ fut[t].stage \in SourceTypes) =>
                fut[t].hwm = LargestTimestamp(ledger[fut[t].user].rows, fut[t].stage)

HwmNeverDecreases ==
    \A u \in Users : \A t \in SourceTypes : hwmRead'[u][t] >= hwmRead[u][t]

C4_HighWaterMark == [](HwmIsLargest) /\ [][HwmNeverDecreases]_vars

\* A later pass reads the mark that the first pass's posts left behind.
C4_Witness ==
    \E t \in 1..Len(fut) :
        /\ fut[t].read /\ fut[t].stage = "posts" /\ fut[t].user = 1
        /\ fut[t].hwm = 4 /\ passNo = 2
        /\ Len(ledger[1].rows) > 2

----------------------------------------------------------------------------
(* C6: a ledger row of a media item, committed or not yet, implies a file  *)
(* at the final destination path the item was recorded under.              *)

Range(seq) == {seq[i] : i \in 1..Len(seq)}

\* Every media item the remote can hand to download_media.
AllMedia ==
    [u \in Users |->
        UNION {Range(WalkPosts("posts", RemotePosts(u, e), 0, FALSE, 0).items)
               \cup Range(WalkPosts("archived", RemoteArchived(u, e), 0, FALSE, 0).items)
               \cup Range(get_message_media(RemoteMessages(u, e), 0, PyInt(u)).items)
               : e \in Range(Epochs)}]

RowHasFile(u, row) ==
    \E media \in AllMedia[u] :
        /\ KeyOf(media) = Key(row.source_type, row.source_id, row.media_id)
        /\ Exists(fs[u], DestFile([media EXCEPT !.created_at = row.timestamp]))

MediaRows(rows) == {r \in Range(rows) : r.source_type \in SourceTypes}

C6_RowImpliesFile ==
    /\ \A u \in Users : \A row \in MediaRows(ledger[u].rows) : RowHasFile(u, row)
    /\ \A k \in 1..Len(dl) : \A row \in MediaRows(dl[k].txn) : RowHasFile(dl[k].user, row)

\* Both users of the first account have committed rows, all with files.
C6_Witness ==
    /\ Cardinality(MediaRows(ledger[1].rows)) = 3
    /\ Cardinality(MediaRows(ledger[2].rows)) = 1
    /\ \A row \in MediaRows(ledger[1].rows) : RowHasFile(1, row)

----------------------------------------------------------------------------
(* C7: no final destination path ever holds a partially transferred body:  *)
(* bytes go to a '.part' path with a random suffix, the rename follows the *)
(* complete body, and a failing transfer leaves the final paths as they    *)
(* were.                                                                   *)

Finals(files) == [p \in {q \in DOMAIN files : q.tok = ""} |-> files[p]]

FinalsComplete ==
    \A u \in Users : \A p \in DOMAIN fs[u] :
        p.tok = "" => fs[u][p].size = BodySize(fs[u][p].src)

FailureKeepsFinals ==
    \A k \in 1..Len(dl) :
        (k <= Len(dl') /\ dl[k].pc = "stream" /\ dl'[k].pc = "exit") =>
            Finals(fs'[dl[k].user]) = Finals(fs[dl[k].user])

C7_NoPartialFinal == [](FinalsComplete) /\ [][FailureKeepsFinals]_vars

\* A transfer broke: its partial body sits under the temporary name, no
\* file is at the item's final path.
C7_Witness ==
    \E k \in 1..Len(dl) : \E p \in DOMAIN fs[dl[k].user] :
        /\ dl[k].pc = "exit" /\ dl[k].i <= Len(dl[k].medias)
        /\ p.tok # "" /\ fs[dl[k].user][p].size < BodySize(fs[dl[k].user][p].src)
        /\ [p EXCEPT !.tok = ""] = DestFile(dl[k].medias[dl[k].i])
        /\ ~Exists(fs[dl[k].user], DestFile(dl[k].medias[dl[k].i]))

----------------------------------------------------------------------------
(* C8: when the fetch task of one remote user fails, the account's pass    *)
(* goes on for its other remote users: the main thread is not thrown out   *)
(* of the fetch phase and the process does not end.                        *)

C8_SiblingsSurvive ==
    \A t \in 1..Len(fut) :
        (/\ fut[t].err = "ScrapingException"
         /\ \E v \in Range(Account.subs) : v # fut[t].arg.v)
        => pc \notin {"abort", "crashed"}

----------------------------------------------------------------------------
(* C9: when listing the subscriptions or the chats fails, download()       *)
(* returns normally, having started no fetch task and no download task.    *)

C9_ListingFailureReturns ==
    [][(pc = "list" /\ pc' # "posts") =>
          (pc' = "returned" /\ fut' = <<>> /\ dl' = <<>>)]_vars

----------------------------------------------------------------------------
(* C10: within one account's pass no download_media task starts before     *)
(* every fetch task of every stage has completed.                          *)

C10_PhasesDoNotInterleave ==
    (\E k \in 1..Len(dl) : dl[k].pc \notin {"pending", "cancelled"}) =>
        \A t \in 1..Len(fut) : fut[t].st \notin {"pending", "running"}

\* A download task is at work after the eight fetch tasks of the first
\* account (two subscriptions, four stages with tasks) were collected.
C10_Witness ==
    /\ \E k \in 1..Len(dl) : dl[k].pc = "stream"
    /\ Len(fut) = 8
    /\ \A t \in 1..Len(fut) : fut[t].st = "collected"

----------------------------------------------------------------------------
(* C11: the ledger of a remote user has at most one writer at any time: a  *)
(* pass has at most one download_media task per remote user id, that task  *)
(* writes the rows of all source types of the user one after the other,    *)
(* and no step of the fetch phase changes a ledger row.                    *)

Writing == {"avatar", "header", "select", "stream"}

OneTaskPerUser ==
    /\ \A i, j \in 1..Len(user_medias) :
          user_medias[i].user = user_medias[j].user => i = j
    /\ \A i, j \in 1..Len(dl) : dl[i].user = dl[j].user => i = j
    /\ \A u \in Users :
          Cardinality({k \in 1..Len(dl) : dl[k].user = u /\ dl[k].pc \in Writing}) <= 1

RowsChangeInDownloadOnly ==
    \A u \in Users :
        ledger'[u].rows # ledger[u].rows =>
            /\ pc \in {"download", "dl_abort"} /\ fut' = fut
            /\ \E k \in 1..Len(dl) :
                  dl[k].user = u /\ dl[k].pc \in Writing /\ dl'[k].pc = "done"

C11_SingleWriter == [](OneTaskPerUser) /\ [][RowsChangeInDownloadOnly]_vars

\* Two download_media tasks hold uncommitted rows at once, each for its own
\* user; the one of user 1 has written rows of two source types.
C11_Witness ==
    \E i, j \in 1..Len(dl) :
        /\ dl[i].user = 1 /\ dl[j].user = 2
        /\ dl[i].pc \in Writing /\ dl[j].pc \in Writing
        /\ dl[j].txn # <<>>
        /\ \E a, b \in 1..Len(dl[i].txn) :
              dl[i].txn[a].source_type = "posts" /\ dl[i].txn[b].source_type = "archived"

----------------------------------------------------------------------------
(* C12: end to end, for the account of users 4 and 5, user 4 having 15     *)
(* posts none of which was seen before, served 5 to a page: a pass without *)
(* a failure leaves exactly 15 files and 15 ledger rows for user 4, and a  *)
(* later pass that finds those rows transfers nothing.                     *)

FinalFiles(u) == {p \in DOMAIN fs[u] : p.tok = ""}

C12_EndToEnd ==
    /\ (passNo = 1 /\ pc = "finished" /\ reported = {}) =>
          /\ Cardinality(FinalFiles(4)) = E2EPosts
          /\ Len(ledger[4].rows) = E2EPosts
    /\ (passNo >= 2 /\ hwmRead[4]["posts"] > 0) => xfers[4] = <<>>

----------------------------------------------------------------------------
(* C13: when download_media passes the avatar (header) block with a remote *)
(* last-modified timestamp that is not among the timestamps recorded for   *)
(* the kind, and one is recorded, the step moves the previous canonical    *)
(* file to the archival name carrying the recorded timestamp, puts the new *)
(* content under the canonical name and records the new timestamp; one     *)
(* canonical-named file exists afterwards.                                 *)

RecordedStamps(k, kind) ==
    {r.timestamp : r \in {q \in Range(ledger[dl[k].user].rows \o dl[k].txn) :
                             q.source_type = kind}}

Largest(S) == CHOOSE m \in S : \A x \in S : m >= x

AssetRotated(k, kind) ==
    LET u == dl[k].user
        stamp == AssetStamp(u, kind, epoch)
        canonical == Path(kind, "", 0, 0, "", "jpg", "")
        archival == Path(kind, "", 0, Largest(RecordedStamps(k, kind)), "", "jpg", "")
    IN  /\ Exists(fs[u], canonical)
        /\ Exists(fs'[u], archival) /\ fs'[u][archival] = fs[u][canonical]
        /\ Exists(fs'[u], canonical)
        /\ fs'[u][canonical] = Content(stamp, BodySize(stamp))
        /\ \E i \in 1..Len(dl'[k].txn) :
              /\ dl'[k].txn[i].source_type = kind
              /\ dl'[k].txn[i].timestamp = stamp
        /\ Cardinality({p \in DOMAIN fs'[u] :
                           p.kind = kind /\ p.id = 0 /\ p.tok = ""}) = 1

C13_AssetRotation ==
    [][\A k \in 1..Len(dl) : \A kind \in {"avatar", "header"} :
          (/\ k <= Len(dl')
           /\ dl[k].pc = kind
           /\ dl'[k].pc = (IF kind = "avatar" THEN "header" ELSE "select")
           /\ AssetUrl(dl[k].user, kind) # None
           /\ RecordedStamps(k, kind) # {}
           /\ AssetStamp(dl[k].user, kind, epoch) \notin RecordedStamps(k, kind))
          => AssetRotated(k, kind)]_vars

\* The avatar of user 1 changed between two passes: the first one is under
\* the archival name, the second one under the canonical name, its row
\* written and not yet committed.
C13_Witness ==
    \E k \in 1..Len(dl) :
        /\ dl[k].user = 1 /\ dl[k].pc = "header"
        /\ \E i \in 1..Len(dl[k].txn) :
              dl[k].txn[i].source_type = "avatar" /\ dl[k].txn[i].timestamp = 2
        /\ Exists(fs[1], Path("avatar", "", 0, 1, "", "jpg", ""))
        /\ fs[1][Path("avatar", "", 0, 1, "", "jpg", "")].src = 1
        /\ fs[1][Path("avatar", "", 0, 0, "", "jpg", "")].src = 2
        /\ \E i \in 1..Len(ledger[1].rows) :
              ledger[1].rows[i].source_type = "avatar" /\ ledger[1].rows[i].timestamp = 1

----------------------------------------------------------------------------
(* C14: when an item has no ledger row and a file of the length the remote *)
(* declares for it is at its destination path, the round of download_media *)
(* that gets a response for it inserts the row, transfers no body and      *)
(* leaves every file as it is; so the files of a pass that ended before    *)
(* its commit are recorded by the next pass.                               *)

WholeFileAt(k) ==
    LET u == dl[k].user
        media == dl[k].medias[dl[k].i]
        dest == Path(media.source_type, media.file_type, Date(media.created_at),
                     media.id, media.text, Ext(media.file_type), "")
    IN  /\ dest \in DOMAIN fs[u]
        /\ fs[u][dest] = Content(media.url, BodySize(media.url))

C14_ExistingFileRecorded ==
    [][\A k \in 1..Len(dl) :
          (/\ k <= Len(dl')
           /\ dl[k].pc = "select" /\ dl[k].i <= Len(dl[k].medias)
           /\ dl'[k] # dl[k] /\ dl'[k].pc # "exit"
           /\ RowsOfKey(ledger[dl[k].user].rows \o dl[k].txn,
                        KeyOf(dl[k].medias[dl[k].i])) = {}
           /\ WholeFileAt(k))
          => LET media == dl[k].medias[dl[k].i] IN
             /\ dl'[k].pc = "select" /\ dl'[k].i = dl[k].i + 1
             /\ dl'[k].txn = Append(dl[k].txn,
                                    Row(media.source_type, media.created_at,
                                        media.source_id, media.id))
             /\ fs' = fs
             /\ Count(xfers'[dl[k].user], KeyOf(media), "wr")
                   = Count(xfers[dl[k].user], KeyOf(media), "wr")]_vars

\* A later pass has recorded an item whose file an earlier pass had put in
\* place before it ended without a commit: one request, no write.
C14_Witness ==
    \E k \in 1..Len(dl) :
        /\ passNo = 2 /\ dl[k].pc = "select" /\ dl[k].i > 1 /\ dl[k].last = "existing"
        /\ LET media == dl[k].medias[dl[k].i - 1] IN
             /\ RowsOfKey(dl[k].txn, KeyOf(media)) # {}
             /\ RowsOfKey(ledger[dl[k].user].rows, KeyOf(media)) = {}
             /\ Count(xfers[dl[k].user], KeyOf(media), "req") = 1
             /\ Count(xfers[dl[k].user], KeyOf(media), "wr") = 0

----------------------------------------------------------------------------
(* The normalizers on their own: every record over a small set of media    *)
(* entries, prices, preview sets and expiry times.                         *)

\* Largest number of media entries in a record handed to a normalizer.
MaxMedia == 2

\* The media entries of a record: ids 5, 6, ... with the given can_view.
NormMedia(can_view) ==
    [i \in 1..Len(can_view) |-> Media(4 + i, "photo", can_view[i])]

NormInputs ==
    [kind : {"posts", "archived", "messages", "stories"},
     can_view : UNION {[1..n -> BOOLEAN] : n \in 0..MaxMedia},
     price : {0, 10}, preview : SUBSET {5, 6},
     expired_at : {None, "t9"}, skip_temporary : BOOLEAN]

NormPost(in) ==
    [Post(3, 2, 1, "a", in.price, in.preview, NormMedia(in.can_view))
        EXCEPT !.expired_at = in.expired_at]

NormMessage(in) ==
    [id |-> 3, created_at |-> 2, from_user |-> 1, text |-> "a",
     price |-> in.price, previews |-> in.preview,
     media |-> NormMedia(in.can_view)]

NormStory(in) == Story(3, 1, 2, NormMedia(in.can_view))

NormInit ==
    /\ nIn \in NormInputs
    /\ nOut = NoCall
    /\ WalkIdle /\ HwmIdle /\ PassIdle

NormPostRun ==
    /\ ~nOut.done /\ nIn.kind = "posts"
    /\ nOut' = [done |-> TRUE,
                res |-> normalize_post_media(NormPost(nIn), nIn.skip_temporary)]
    /\ UNCHANGED <<nIn, walkVars, hwmVars, passVars>>

NormArchivedRun ==
    /\ ~nOut.done /\ nIn.kind = "archived"
    /\ nOut' = [done |-> TRUE,
                res |-> normalize_archived_post_media(NormPost(nIn),
                                                      nIn.skip_temporary)]
    /\ UNCHANGED <<nIn, walkVars, hwmVars, passVars>>

NormMessageRun ==
    /\ ~nOut.done /\ nIn.kind = "messages"
    /\ nOut' = [done |-> TRUE, res |-> normalize_message_media(NormMessage(nIn))]
    /\ UNCHANGED <<nIn, walkVars, hwmVars, passVars>>

NormStoryRun ==
    /\ ~nOut.done /\ nIn.kind = "stories"
    /\ nOut' = [done |-> TRUE, res |-> normalize_story_media(NormStory(nIn), None)]
    /\ UNCHANGED <<nIn, walkVars, hwmVars, passVars>>

NormNext == NormPostRun \/ NormArchivedRun \/ NormMessageRun \/ NormStoryRun

SpecNorm == NormInit /\ [][NormNext]_vars

----------------------------------------------------------------------------
(* C15: every normalizer (posts, archived posts, messages, stories) emits  *)
(* a media item only for a nested media entry whose can_view is true, and  *)
(* a record whose media entries all have can_view false yields an empty    *)
(* result (no item, no exception).                                         *)

\* The ids of the record's media entries that can be viewed.
Viewable(in) == {4 + i : i \in {j \in 1..Len(in.can_view) : in.can_view[j]}}

C15_OnlyViewable ==
    nOut.done =>
        /\ \A i \in 1..Len(nOut.res.items) : nOut.res.items[i].id \in Viewable(nIn)
        /\ Viewable(nIn) = {} => nOut.res = Ok(<<>>)

\* An archived post with one hidden and one viewable entry was normalized
\* to the viewable entry alone.
C15_Witness ==
    /\ nOut.done
    /\ nIn.kind = "archived" /\ nIn.can_view = <<FALSE, TRUE>>
    /\ Len(nOut.res.items) = 1 /\ nOut.res.items[1].id = 6

----------------------------------------------------------------------------
(* C16: price tier.  An item emitted from a post is tagged paid iff the    *)
(* post's price is nonzero; an item emitted from an archived post or a     *)
(* message is tagged paid iff the record's price is nonzero and the media  *)
(* id is not in the record's preview ids, and free otherwise.              *)

Tier(in, id) ==
    IF in.price # 0 /\ (in.kind = "posts" \/ id \notin in.preview)
    THEN "paid" ELSE "free"

C16_PriceTier ==
    (nOut.done /\ nIn.kind \in {"posts", "archived", "messages"}) =>
        \A i \in 1..Len(nOut.res.items) :
            nOut.res.items[i].value = Tier(nIn, nOut.res.items[i].id)

\* Price 10, media ids 5 and 6, preview ids {5}, archived: 5 free, 6 paid.
C16_Witness ==
    /\ nOut.done /\ nIn.kind = "archived" /\ nIn.price = 10
    /\ nIn.can_view = <<TRUE, TRUE>> /\ nIn.preview = {5}
    /\ Len(nOut.res.items) = 2
    /\ nOut.res.items[1].id = 5 /\ nOut.res.items[1].value = "free"
    /\ nOut.res.items[2].id = 6 /\ nOut.res.items[2].value = "paid"

----------------------------------------------------------------------------
(* client.py: the enumerations request by request.  A result is            *)
(* [err, items, reqs]: reqs lists the documents requested, in order;       *)
(* failAt is the number of the request that fails (0: none fails) and      *)
(* fault the exception it fails with (RequestException from the transport, *)
(* DecodeError from the decoder).                                          *)

\* limit=5 of the highlight categories URL.
CategoryLimit == 5
\* offset += 5 after each page of categories.
CategoryStep == 5

Faults == {"RequestException", "DecodeError"}

\* try: ... except requests.RequestException / except msgspec.DecodeError:
\*     raise ScrapingException(...)
Caught(fault) == "ScrapingException"

Failed(e, reqs) == [err |-> e, items |-> <<>>, reqs |-> reqs]

\* The first loop of get_highlight_media_by_id: pages of categories until
\* the remote answers with an empty list.  [err, cats, reqs].
RECURSIVE CategoryPages(_, _, _, _, _, _)
CategoryPages(categories, failAt, fault, offset, acc, reqs) ==
    LET reqs2 == Append(reqs, [doc |-> "categories", at |-> offset]) IN
    IF Len(reqs2) = failAt
    THEN [err |-> Caught(fault), cats |-> <<>>, reqs |-> reqs2]
    ELSE LET page == IF offset >= Len(categories) THEN <<>>
                     ELSE SubSeq(categories, offset + 1,
                                 Min(offset + CategoryLimit, Len(categories)))
         IN  IF Len(page) = 0
             THEN [err |-> "none", cats |-> acc, reqs |-> reqs2]
             ELSE CategoryPages(categories, failAt, fault, offset + CategoryStep,
                                acc \o page, reqs2)

\* The second loop: `for category in categories`, the detail document
\* requested and decoded outside any try.
RECURSIVE HighlightDetails(_, _, _, _, _, _, _)
HighlightDetails(cats, hwm, failAt, fault, c, acc, reqs) ==
    IF c > Len(cats) THEN [err |-> "none", items |-> acc, reqs |-> reqs]
    ELSE LET reqs2 == Append(reqs, [doc |-> "highlight", at |-> cats[c].id]) IN
         IF Len(reqs2) = failAt THEN Failed(fault, reqs2)
         ELSE LET s == ScanStories(Reverse(cats[c].stories), 1, hwm,
                                   cats[c].title, acc)
              IN  IF s.err # "none" THEN Failed(s.err, reqs2)
                  ELSE HighlightDetails(cats, hwm, failAt, fault, c + 1,
                                        s.items, reqs2)

get_highlight_media_by_id(categories, hwm, failAt, fault) ==
    LET p == CategoryPages(categories, failAt, fault, 0, <<>>, <<>>) IN
    IF p.err # "none" THEN Failed(p.err, p.reqs)
    ELSE HighlightDetails(p.cats, hwm, failAt, fault, 1, <<>>, p.reqs)

\* One request for the whole set, inside a try; then the scan.
get_story_media_by_id(stories, hwm, failAt, fault) ==
    LET reqs == <<[doc |-> "stories", at |-> 0]>> IN
    IF failAt = 1 THEN Failed(Caught(fault), reqs)
    ELSE LET r == get_story_media(stories, hwm)
         IN  [err |-> r.err, items |-> r.items, reqs |-> reqs]

\* The chats remote: n conversations, the one at position `hole` (0: none)
\* deleted on the remote and left out of the page it falls in.  A response
\* holds the partners at the positions offset+1 .. offset+ChatPage, tells
\* whether more follow, and names the offset to ask for next.
ChatPage == 2

ChatsResponse(n, hole, offset) ==
    LET last == Min(offset + ChatPage, n)
        at == {i \in (offset + 1)..last : i # hole}
    IN  [chats |-> [k \in 1..Cardinality(at) |->
                       CHOOSE i \in at : Cardinality({j \in at : j < i}) = k - 1],
         has_more |-> last < n,
         next_offset |-> last]

NextChatOffset_ByCount(decoded_chats, offset) == offset + Len(decoded_chats.chats)

\* offset = decoded_chats.next_offset
NextChatOffset(decoded_chats, offset) == decoded_chats.next_offset

\* [self.get_user_details(chat.with_user.id) for chat in decoded_chats.chats]:
\* one guarded request per partner.  [err, users, reqs].
RECURSIVE ChatUsers(_, _, _, _, _, _)
ChatUsers(ids, i, failAt, fault, acc, reqs) ==
    IF i > Len(ids) THEN [err |-> "none", users |-> acc, reqs |-> reqs]
    ELSE LET reqs2 == Append(reqs, [doc |-> "user", at |-> ids[i]]) IN
         IF Len(reqs2) = failAt
         THEN [err |-> Caught(fault), users |-> <<>>, reqs |-> reqs2]
         ELSE ChatUsers(ids, i + 1, failAt, fault, Append(acc, ids[i]), reqs2)

RECURSIVE ChatsFrom(_, _, _, _, _, _, _)
ChatsFrom(n, hole, failAt, fault, offset, acc, reqs) ==
    LET reqs2 == Append(reqs, [doc |-> "chats", at |-> offset]) IN
    IF Len(reqs2) = failAt THEN Failed(Caught(fault), reqs2)
    ELSE LET decoded_chats == ChatsResponse(n, hole, offset)
             u == ChatUsers(decoded_chats.chats, 1, failAt, fault, acc, reqs2)
         IN  IF u.err # "none" THEN Failed(u.err, u.reqs)
             ELSE IF ~decoded_chats.has_more
             THEN [err |-> "none", items |-> u.users, reqs |-> u.reqs]
             ELSE ChatsFrom(n, hole, failAt, fault,
                            NextChatOffset(decoded_chats, offset), u.users, u.reqs)

get_chats(n, hole, failAt, fault) == ChatsFrom(n, hole, failAt, fault, 0, <<>>, <<>>)

----------------------------------------------------------------------------
(* The enumerations on their own: small remotes, every high-water mark,    *)
(* every single failing request.                                           *)

\* Largest number of highlight categories, of conversations, of messages
\* in a conversation, of stories in one document; latest story time.
MaxCategories == 6
MaxChats == 5
MaxMessages == 12
MaxStories == 2
MaxStamp == 3

\* The stories of one document, in the order the remote lists them.
StoryLayouts ==
    UNION {[1..k -> [created_at : 1..MaxStamp, can_view : BOOLEAN]] :
             k \in 0..MaxStories}

EnumStories(c, layout) ==
    [i \in 1..Len(layout) |->
        Story(10 * c + i, 1, layout[i].created_at,
              <<Media(100 * c + i, "photo", layout[i].can_view)>>)]

\* Category 1 holds the stories of the layout; the others one story above
\* every mark and one below, neither viewable.
EnumCategories(n, layout) ==
    [c \in 1..n |->
        [id |-> c, title |-> "h",
         stories |-> IF c = 1 THEN EnumStories(1, layout)
                     ELSE EnumStories(c, <<[created_at |-> MaxStamp + 1,
                                            can_view |-> FALSE],
                                           [created_at |-> 0,
                                            can_view |-> FALSE]>>)]]

\* A conversation of n messages, newest first, a photo each.
EnumMessages(n) ==
    [i \in 1..n |->
        [id |-> i, created_at |-> n - i + 1, from_user |-> 1, text |-> "m",
         price |-> 0, previews |-> {}, media |-> <<Media(50 + i, "photo", TRUE)>>]]

EnumInputs ==
    [kind : {"posts", "archived", "chats", "messages", "highlights", "stories"},
     n : 0..MaxMessages, hole : 0..MaxChats, layout : StoryLayouts,
     hwm : 0..(MaxMessages + 1), failAt : 0..4, fault : Faults]

EnumInit ==
    /\ nIn \in {in \in EnumInputs :
                 /\ in.failAt = 0 => in.fault = "RequestException"
                 /\ in.kind \in {"posts", "archived", "messages"} =>
                       /\ in.hole = 0 /\ in.layout = <<>>
                       /\ in.hwm <= in.n + 1 /\ in.failAt <= 2
                 /\ in.kind = "chats" =>
                       /\ in.n <= MaxChats /\ in.hole <= in.n
                       /\ in.layout = <<>> /\ in.hwm = 0
                 /\ in.kind = "highlights" =>
                       in.n <= MaxCategories /\ in.hole = 0 /\ in.hwm <= MaxStamp
                 /\ in.kind = "stories" =>
                       /\ in.n = 0 /\ in.hole = 0 /\ in.hwm <= MaxStamp
                       /\ in.failAt <= 1}
    /\ nOut = NoCall
    /\ WalkIdle /\ HwmIdle /\ PassIdle

EnumPostsRun ==
    /\ ~nOut.done /\ nIn.kind \in {"posts", "archived"}
    /\ nOut' = [done |-> TRUE,
                res |-> WalkPosts(nIn.kind, WalkColl(nIn.n, 0, FALSE), nIn.hwm,
                                  FALSE, nIn.failAt)]
    /\ UNCHANGED <<nIn, walkVars, hwmVars, passVars>>

EnumChatsRun ==
    /\ ~nOut.done /\ nIn.kind = "chats"
    /\ nOut' = [done |-> TRUE,
                res |-> get_chats(nIn.n, nIn.hole, nIn.failAt, nIn.fault)]
    /\ UNCHANGED <<nIn, walkVars, hwmVars, passVars>>

EnumMessagesRun ==
    /\ ~nOut.done /\ nIn.kind = "messages"
    /\ nOut' = [done |-> TRUE,
                res |-> MessagesFrom(EnumMessages(nIn.n), nIn.hwm, PyInt(1),
                                     nIn.failAt, 0, <<>>, <<>>)]
    /\ UNCHANGED <<nIn, walkVars, hwmVars, passVars>>

EnumHighlightsRun ==
    /\ ~nOut.done /\ nIn.kind = "highlights"
    /\ nOut' = [done |-> TRUE,
                res |-> get_highlight_media_by_id(
                            EnumCategories(nIn.n, nIn.layout), nIn.hwm,
                            nIn.failAt, nIn.fault)]
    /\ UNCHANGED <<nIn, walkVars, hwmVars, passVars>>

EnumStoriesRun ==
    /\ ~nOut.done /\ nIn.kind = "stories"
    /\ nOut' = [done |-> TRUE,
                res |-> get_story_media_by_id(EnumStories(1, nIn.layout), nIn.hwm,
                                              nIn.failAt, nIn.fault)]
    /\ UNCHANGED <<nIn, walkVars, hwmVars, passVars>>

EnumNext ==
    \/ EnumPostsRun \/ EnumChatsRun \/ EnumMessagesRun
    \/ EnumHighlightsRun \/ EnumStoriesRun

SpecEnum == EnumInit /\ [][EnumNext]_vars

----------------------------------------------------------------------------
(* C17: whichever request of an enumeration fails, in the transport or in  *)
(* the decoder, the enumeration raises ScrapingException: no               *)
(* RequestException and no DecodeError escapes it.                         *)

C17_SingleErrorKind ==
    nOut.done => nOut.res.err \notin Faults

----------------------------------------------------------------------------
(* C18: when no request fails, the highlight enumeration asks for the      *)
(* category pages at offsets 0, 5, 10, ... up to the first empty page,     *)
(* then for exactly one detail document per category, in order, and        *)
(* returns what the per-category reversed scans retain.                    *)

Docs(reqs, doc) == SelectSeq(reqs, LAMBDA r : r.doc = doc)

\* Number of category pages up to and including the empty one.
PagesOf(n) == (n + CategoryStep - 1) \div CategoryStep + 1

C18_HighlightFanOut ==
    (nOut.done /\ nIn.kind = "highlights" /\ nIn.failAt = 0) =>
        /\ nOut.res.err = "none"
        /\ Docs(nOut.res.reqs, "categories")
             = [k \in 1..PagesOf(nIn.n) |->
                   [doc |-> "categories", at |-> CategoryStep * (k - 1)]]
        /\ Docs(nOut.res.reqs, "highlight")
             = [c \in 1..nIn.n |-> [doc |-> "highlight", at |-> c]]

----------------------------------------------------------------------------
(* C19: the story enumeration issues exactly one request, and when the     *)
(* response lists the stories newest first it returns the media of every   *)
(* story whose time is above the stories high-water mark and of no story   *)
(* at or below it.                                                         *)

NewestFirst(layout) ==
    \A i \in 1..(Len(layout) - 1) : layout[i].created_at > layout[i + 1].created_at

\* The stories of the response that hold a viewable entry and lie above
\* the mark.
AboveMark(layout, hwm) ==
    {10 + i : i \in {j \in 1..Len(layout) :
                        layout[j].can_view /\ layout[j].created_at > hwm}}

C19_StoriesAboveMark ==
    (nOut.done /\ nIn.kind = "stories" /\ nIn.failAt = 0 /\ NewestFirst(nIn.layout)) =>
        /\ Len(nOut.res.reqs) = 1
        /\ nOut.res.err = "none"
        /\ {nOut.res.items[i].source_id : i \in 1..Len(nOut.res.items)}
             = AboveMark(nIn.layout, nIn.hwm)

----------------------------------------------------------------------------
(* C20: the cursor of chats and messages.  A chats response carries        *)
(* next_offset and the next request asks for exactly that offset; a        *)
(* messages response carries none and the next request asks for the        *)
(* previous offset plus the number of messages returned.  The chats walk   *)
(* ends at the first response with has_more false, the messages walk at    *)
(* the first response with has_more false or with a message at or below    *)
(* the high-water mark.                                                    *)

MessagesResponse(n, offset) ==
    LET page == Page(EnumMessages(n), offset)
    IN  [messages |-> page, has_more |-> offset + Len(page) < n]

AtOrBelow(messages, hwm) ==
    \E i \in 1..Len(messages) : messages[i].created_at <= hwm

ChatCursor ==
    LET reqs == Docs(nOut.res.reqs, "chats")
        resp(k) == ChatsResponse(nIn.n, nIn.hole, reqs[k].at)
    IN  /\ reqs[1].at = 0
        /\ \A k \in 1..(Len(reqs) - 1) :
              resp(k).has_more /\ reqs[k + 1].at = resp(k).next_offset
        /\ nOut.res.err = "none" => ~resp(Len(reqs)).has_more

MessageCursor ==
    LET reqs == nOut.res.reqs
        resp(k) == MessagesResponse(nIn.n, reqs[k].at)
    IN  /\ reqs[1].at = 0
        /\ \A k \in 1..(Len(reqs) - 1) :
              /\ resp(k).has_more /\ ~AtOrBelow(resp(k).messages, nIn.hwm)
              /\ reqs[k + 1].at = reqs[k].at + Len(resp(k).messages)
        /\ nOut.res.err = "none" =>
              \/ ~resp(Len(reqs)).has_more
              \/ AtOrBelow(resp(Len(reqs)).messages, nIn.hwm)

C20_CursorProtocol ==
    /\ (nOut.done /\ nIn.kind = "chats") => ChatCursor
    /\ (nOut.done /\ nIn.kind = "messages") => MessageCursor

\* A chats walk of several requests whose first response held fewer
\* partners than its next_offset advanced by.
C20_Witness ==
    /\ nOut.done /\ nIn.kind = "chats" /\ nOut.res.err = "none"
    /\ Len(Docs(nOut.res.reqs, "chats")) >= 2
    /\ LET first == ChatsResponse(nIn.n, nIn.hole, 0)
       IN  first.next_offset # Len(first.chats)

----------------------------------------------------------------------------
(* C21: a transport failure while download_media fetches an avatar, a      *)
(* header or a media item (session.get raises, raise_for_status raises on  *)
(* an error status, the body breaks off) is a hard stop.  The task that    *)
(* met it is finished for good with its remaining items untouched, and the *)
(* process ends with a failure status: download() never returns normally,  *)
(* so no later account is processed.                                       *)

HitTransportFailure(k) == dl[k].err = "SystemExit"

FailedTaskIsOver ==
    \A k \in 1..Len(dl) :
        HitTransportFailure(k) =>
            /\ dl[k].pc = "exit"
            /\ pc \in {"download", "dl_abort", "exited", "crashed"}

FailedTaskStaysOver ==
    \A k \in 1..Len(dl) :
        (HitTransportFailure(k) /\ passNo' = passNo) =>
            /\ acct' = acct
            /\ k <= Len(dl') /\ dl'[k] = dl[k]
            /\ fs'[dl[k].user] # fs[dl[k].user] =>
                  \E j \in 1..Len(dl) : j # k /\ dl[j].user = dl[k].user

----------------------------------------------------------------------------
(* C22: a media item of a file type download_media does not know is        *)
(* skipped.  No file and no ledger row ever exists for it, the round of    *)
(* the loop that meets it changes nothing but the loop position, raises    *)
(* nothing, and the task goes on with the items after it.                  *)

UnknownType(media) ==
    media.file_type \notin {"photo", "video", "audio", "gif"}

NoTraceOfUnknown ==
    \A u \in Users : \A media \in AllMedia[u] :
        UnknownType(media) =>
            /\ ~SelectKey(ledger[u].rows, media.source_type, media.source_id, media.id)
            /\ \A k \in 1..Len(dl) :
                  dl[k].user = u =>
                     ~SelectKey(dl[k].txn, media.source_type, media.source_id, media.id)
            /\ \A f \in DOMAIN fs[u] : f.id # media.id

UnknownIsStepped ==
    \A k \in 1..Len(dl) :
        (/\ dl[k].pc = "select" /\ dl[k].i <= Len(dl[k].medias)
         /\ UnknownType(dl[k].medias[dl[k].i])
         /\ k <= Len(dl') /\ dl'[k] # dl[k]) =>
            /\ dl'[k] = [dl[k] EXCEPT !.i = @ + 1, !.last = "unknown"]
            /\ UNCHANGED <<fs, ledger, xfers, reported>>

C22_UnknownTypeSkipped == [](NoTraceOfUnknown) /\ [][UnknownIsStepped]_vars

\* A task whose list held an item of unknown type before other items has
\* run through the whole list and committed.
C22_Witness ==
    \E k \in 1..Len(dl) :
        /\ dl[k].pc = "done" /\ dl[k].err = "none"
        /\ \E j \in 1..(Len(dl[k].medias) - 1) : UnknownType(dl[k].medias[j])
        /\ Len(ledger[dl[k].user].rows) > 0

----------------------------------------------------------------------------
(* client.py: the request signer.  header_rules is <<>> for None and       *)
(* <<rules>> for a HeaderRules bundle; strings the signer only copies or   *)
(* hashes (static_param, path, query) are small integers.                  *)

\* Latest reading of time.time(), in half seconds.
MaxClock == 5

\* Hex digits in the model's digest (sha1().hexdigest() has forty).
DigestLen == 4

RulesA ==
    [static_param |-> 1, format |-> "a:{}:{:x}", checksum_indexes |-> <<0, 2>>,
     checksum_constant |-> 5, app_token |-> "tokA"]

RulesB ==
    [static_param |-> 2, format |-> "b:{}:{:x}", checksum_indexes |-> <<1, 1, 3>>,
     checksum_constant |-> 0 - 400, app_token |-> "tokB"]

\* url_path = f'{path}?{query}' if parsed_url.query else parsed_url.path
UrlPath(url) == IF url.query # 0 THEN <<url.path, url.query>> ELSE <<url.path>>

CurrentSeconds_Frozen(clock) == 0

\* str(int(time.time()))
CurrentSeconds(clock) == clock \div 2

\* hashlib.sha1('\n'.join([static_param, current_seconds, url_path, '0']))
\* .hexdigest(): a fixed function of the message, one hex digit per place.
Sha1Hex(static_param, current_seconds, url_path) ==
    LET code == 31 * static_param + 17 * current_seconds + 13 * url_path[1]
                + (IF Len(url_path) > 1 THEN 11 * url_path[2] ELSE 0)
    IN  [i \in 1..DigestLen |-> (code * i + current_seconds + i * i) % 16]

\* digest_hex.encode('ascii')[num]
Ascii(digit) == IF digit < 10 THEN 48 + digit ELSE 87 + digit

RECURSIVE SumAt(_, _, _)
SumAt(digest_hex, indexes, i) ==
    IF i > Len(indexes) THEN 0
    ELSE Ascii(digest_hex[indexes[i] + 1]) + SumAt(digest_hex, indexes, i + 1)

Abs(n) == IF n < 0 THEN 0 - n ELSE n

NoHeaders == [err |-> "ScrapingException", headers |-> <<>>]

generate_headers_Unsigned(header_rules, x_bc, cookie, url, clock) ==
    [err |-> "none",
     headers |-> <<[accept |-> "application/json, text/plain, */*",
                    app_token |-> None, sign |-> None,
                    time |-> CurrentSeconds(clock), x_bc |-> x_bc,
                    cookie |-> IF cookie # "" THEN cookie ELSE None]>>]

generate_headers(header_rules, x_bc, cookie, url, clock) ==
    IF header_rules = <<>> THEN NoHeaders
    ELSE LET rules == header_rules[1]
             current_seconds == CurrentSeconds(clock)
             digest_hex == Sha1Hex(rules.static_param, current_seconds, UrlPath(url))
         IN  [err |-> "none",
              headers |-> <<[accept |-> "application/json, text/plain, */*",
                             app_token |-> rules.app_token,
                             sign |-> [format |-> rules.format, digest |-> digest_hex,
                                       checksum |->
                                          Abs(SumAt(digest_hex, rules.checksum_indexes, 1)
                                              + rules.checksum_constant)],
                             time |-> current_seconds, x_bc |-> x_bc,
                             cookie |-> IF cookie # "" THEN cookie ELSE None]>>]

\* session.get(url, headers=self.generate_headers(url), ...): the headers
\* are computed before the request is made; raise_for_status.  sent lists
\* the requests that went out.
send_get_request(header_rules, x_bc, cookie, url, clock, response) ==
    LET h == generate_headers(header_rules, x_bc, cookie, url, clock) IN
    IF h.err # "none" THEN [err |-> h.err, sent |-> <<>>]
    ELSE [err |-> IF response = "ok" THEN "none" ELSE "RequestException",
          sent |-> <<[url |-> url, headers |-> h.headers[1]]>>]

SignInputs ==
    [kind : {"headers", "send"}, header_rules : {<<>>, <<RulesA>>, <<RulesB>>},
     url : [path : {1, 2}, query : {0, 1}], cookie : {"", "c"},
     clock : 0..MaxClock, again : 0..MaxClock,
     response : {"ok", "http_error", "timeout"}]

SignInit ==
    /\ nIn \in {in \in SignInputs :
                 /\ in.kind = "headers" => in.response = "ok"
                 /\ in.kind = "send" => in.again = in.clock}
    /\ nOut = NoCall
    /\ WalkIdle /\ HwmIdle /\ PassIdle

\* generate_headers, called twice: once at `clock`, once at `again`.
GenerateHeadersRun ==
    /\ ~nOut.done /\ nIn.kind = "headers"
    /\ nOut' = [done |-> TRUE,
                first |-> generate_headers(nIn.header_rules, "xbc", nIn.cookie,
                                           nIn.url, nIn.clock),
                second |-> generate_headers(nIn.header_rules, "xbc", nIn.cookie,
                                            nIn.url, nIn.again)]
    /\ UNCHANGED <<nIn, walkVars, hwmVars, passVars>>

SendGetRequestRun ==
    /\ ~nOut.done /\ nIn.kind = "send"
    /\ nOut' = [done |-> TRUE,
                res |-> send_get_request(nIn.header_rules, "xbc", nIn.cookie,
                                         nIn.url, nIn.clock, nIn.response)]
    /\ UNCHANGED <<nIn, walkVars, hwmVars, passVars>>

SignNext == GenerateHeadersRun \/ SendGetRequestRun

SpecSign == SignInit /\ [][SignNext]_vars

----------------------------------------------------------------------------
(* C23: a client constructed without header rules fails every signing      *)
(* with ScrapingException: generate_headers raises it and returns no       *)
(* header, and send_get_request raises it without a request going out.     *)

C23_InertWithoutRules ==
    (nOut.done /\ nIn.header_rules = <<>>) =>
        /\ nIn.kind = "headers" => nOut.first = NoHeaders /\ nOut.second = NoHeaders
        /\ nIn.kind = "send" =>
              nOut.res.err = "ScrapingException" /\ nOut.res.sent = <<>>

\* send_get_request was called on a client without rules, for a URL the
\* remote would have answered.
C23_Witness ==
    /\ nOut.done /\ nIn.kind = "send" /\ nIn.header_rules = <<>>
    /\ nIn.response = "ok" /\ nOut.res.err = "ScrapingException"

----------------------------------------------------------------------------
(* C24: signing is deterministic.  For one rules bundle and one path and   *)
(* query, two invocations whose clock readings fall in the same whole      *)
(* second produce identical headers (app-token, sign, time, x-bc and the   *)
(* rest), and two invocations in different whole seconds produce different *)
(* headers.                                                                *)

\* Two readings of the half-second clock within one whole second.
SameSecond(a, b) == a \div 2 = b \div 2

C24_SigningDeterministic ==
    (nOut.done /\ nIn.kind = "headers" /\ nIn.header_rules # <<>>) =>
        IF SameSecond(nIn.clock, nIn.again)
        THEN nOut.first = nOut.second
        ELSE nOut.first.headers # nOut.second.headers

\* Two invocations a second apart: the time header and the signature both
\* differ.
C24_Witness ==
    /\ nOut.done /\ nIn.kind = "headers" /\ nIn.header_rules # <<>>
    /\ ~SameSecond(nIn.clock, nIn.again)
    /\ nOut.first.headers[1].time # nOut.second.headers[1].time
    /\ nOut.first.headers[1].sign # nOut.second.headers[1].sign

\* The statement with "time" read as the moment of the invocation: equal
\* for equal readings of the clock, different for different readings.
C24_DiffersWheneverTimeDiffers ==
    (nOut.done /\ nIn.kind = "headers" /\ nIn.header_rules # <<>>) =>
        IF nIn.clock = nIn.again
        THEN nOut.first = nOut.second
        ELSE nOut.first.headers # nOut.second.headers

----------------------------------------------------------------------------
(* C25: the post and archived-post normalizers return nothing for a record *)
(* without media entries and nothing for a record with an expiry when      *)
(* skip_temporary is set; any other record, expiring or not, yields its    *)
(* viewable entries in order.  The message and story normalizers return    *)
(* an empty result only for a record without a viewable entry, whatever    *)
(* its expiry and the flag.                                                *)

ItemIds(res) == [i \in 1..Len(res.items) |-> res.items[i].id]

\* The ids of the viewable entries, in the order of the record.
ViewableIds(in) ==
    LET at == {j \in 1..Len(in.can_view) : in.can_view[j]}
    IN  [k \in 1..Cardinality(at) |->
            4 + (CHOOSE j \in at : Cardinality({q \in at : q < j}) = k - 1)]

Dropped(in) ==
    Len(in.can_view) = 0 \/ (in.expired_at # None /\ in.skip_temporary)

C25_DropRules ==
    nOut.done =>
        /\ nIn.kind \in {"posts", "archived"} =>
              /\ nOut.res.err = "none"
              /\ ItemIds(nOut.res) = IF Dropped(nIn) THEN <<>> ELSE ViewableIds(nIn)
        /\ nIn.kind = "messages" =>
              nOut.res.err = "none" /\ ItemIds(nOut.res) = ViewableIds(nIn)
        /\ nIn.kind = "stories" =>
              (nOut.res = Ok(<<>>) <=> Viewable(nIn) = {})

\* A post with a viewable entry and an expiry was dropped under
\* skip_temporary.
C25_Witness ==
    /\ nOut.done /\ nIn.kind = "posts"
    /\ nIn.can_view = <<TRUE>> /\ nIn.expired_at # None /\ nIn.skip_temporary
    /\ nOut.res = Ok(<<>>)

----------------------------------------------------------------------------
(* C26: story normalization succeeds for every story: it returns one item  *)
(* per viewable media entry, in order, each of source type 'stories' and   *)
(* none tagged paid.                                                       *)

C26_StoriesNormalize ==
    (nOut.done /\ nIn.kind = "stories") =>
        /\ nOut.res.err = "none"
        /\ ItemIds(nOut.res) = ViewableIds(nIn)
        /\ \A i \in 1..Len(nOut.res.items) :
              /\ nOut.res.items[i].source_type = "stories"
              /\ nOut.res.items[i].value # "paid"

----------------------------------------------------------------------------
(* C27: once the result of the messages task of a chat partner u has been  *)
(* collected, the list stored under u holds an item for every viewable     *)
(* media entry of every message u sent above u's messages high-water mark: *)
(* the task was called with u's id and kept the messages whose sender is   *)
(* u.                                                                      *)

\* What a messages task called with the partner's id returns.
MessagesOf(u, hwm) ==
    Range(get_message_media(RemoteMessages(u, epoch), hwm, PyInt(u)).items)

StoredUnder(u) ==
    UNION {Range(user_medias[i].medias) :
             i \in {j \in 1..Len(user_medias) : user_medias[j].user = u}}

C27_MessagesCollected ==
    \A t \in 1..Len(fut) :
        (fut[t].stage = "messages" /\ fut[t].st = "collected" /\ fut[t].err = "none") =>
            /\ fut[t].arg.tag = "int"
            /\ MessagesOf(fut[t].arg.v, fut[t].hwm) \subseteq StoredUnder(fut[t].arg.v)

----------------------------------------------------------------------------
(* C28: fan-in loses nothing.  Collecting the result of a fetch task       *)
(* appends it to the list stored under the task's user (one key per user   *)
(* id) and leaves every other list alone; between two calls of download()  *)
(* no list ever loses an item, so at the end of the fetch phase a list is  *)
(* the concatenation of the collected results in the order they arrived.   *)

ListOf(um, u) ==
    IF \E i \in 1..Len(um) : um[i].user = u
    THEN um[CHOOSE i \in 1..Len(um) : um[i].user = u].medias
    ELSE <<>>

IsPrefix(a, b) == Len(a) <= Len(b) /\ SubSeq(b, 1, Len(a)) = a

OneKeyPerUser ==
    \A i, j \in 1..Len(user_medias) :
        user_medias[i].user = user_medias[j].user => i = j

CollectAppends ==
    \A t \in 1..Len(fut) :
        (fut[t].st = "done" /\ t <= Len(fut') /\ fut'[t].st = "collected") =>
            /\ ListOf(user_medias', fut[t].user)
                 = ListOf(user_medias, fut[t].user) \o fut[t].res
            /\ \A u \in Users \ {fut[t].user} :
                  ListOf(user_medias', u) = ListOf(user_medias, u)

NothingDropped ==
    user_medias' # <<>> =>
        \A u \in Users : IsPrefix(ListOf(user_medias, u), ListOf(user_medias', u))

C28_FanIn == [](OneKeyPerUser) /\ [][CollectAppends /\ NothingDropped]_vars

\* One list holds what the posts stage and what the archived stage
\* returned for its user.
C28_Witness ==
    \E i \in 1..Len(user_medias) :
        /\ \E m \in Range(user_medias[i].medias) : m.source_type = "posts"
        /\ \E m \in Range(user_medias[i].medias) : m.source_type = "archived"

----------------------------------------------------------------------------
(* C29: the rows one download_media call inserts become durable together,  *)
(* at the end of the call, or not at all.  The committed rows of a user    *)
(* change only in the step that ends a call normally, by all the rows the  *)
(* call inserted; a call that ends by a failure leaves the committed rows  *)
(* as they were, its own rows are gone, and the files it had renamed into  *)
(* their final paths stay on disk.                                         *)

Over == {"done", "exit", "crash", "cancelled"}

NothingPendingAfterCall ==
    \A k \in 1..Len(dl) : dl[k].pc \in Over => dl[k].txn = <<>>

DurableTogether ==
    \A u \in Users :
        ledger'[u].rows # ledger[u].rows =>
            \E k \in 1..Len(dl) :
                /\ dl[k].user = u /\ dl[k].pc = "select" /\ dl'[k].pc = "done"
                /\ dl[k].i > Len(dl[k].medias)
                /\ ledger'[u].rows = ledger[u].rows \o dl[k].txn

FailureDiscardsRows ==
    \A k \in 1..Len(dl) :
        (k <= Len(dl') /\ dl[k].pc \notin Over /\ dl'[k].pc \in {"exit", "crash"}) =>
            /\ ledger'[dl[k].user].rows = ledger[dl[k].user].rows
            /\ dl'[k].txn = <<>>
            /\ \A p \in DOMAIN fs[dl[k].user] :
                  p.tok = "" =>
                     /\ p \in DOMAIN fs'[dl[k].user]
                     /\ fs'[dl[k].user][p] = fs[dl[k].user][p]

C29_AtomicLedger ==
    [](NothingPendingAfterCall) /\ [][DurableTogether /\ FailureDiscardsRows]_vars

\* A call ended by a transport failure after it had downloaded an item:
\* the item's file is at its final path, its row is not in the ledger.
C29_Witness ==
    \E k \in 1..Len(dl) :
        /\ dl[k].pc = "exit"
        /\ \E j \in 1..(dl[k].i - 1) :
              LET media == dl[k].medias[j] IN
              /\ Exists(fs[dl[k].user], DestFile(media))
              /\ ~SelectKey(ledger[dl[k].user].rows, media.source_type,
                            media.source_id, media.id)

----------------------------------------------------------------------------
(* C30: an archival asset file avatar-{t} (header-{t}) holds the content   *)
(* whose remote last-modified timestamp was t, in every reachable state,   *)
(* and the rename to the archival name never finds the canonical file      *)
(* missing.                                                                *)

ArchivalFiles(u) ==
    {p \in DOMAIN fs[u] : \E kind \in {"avatar", "header"}, t \in 1..2 :
                             p = ArchivedAssetFile(kind, t)}

ArchivalHoldsItsStamp ==
    \A u \in Users : \A p \in ArchivalFiles(u) : fs[u][p].src = p.id

CanonicalNeverMissing ==
    \A k \in 1..Len(dl) : dl[k].err # "FileNotFoundError"

C30_ArchivalFaithful == ArchivalHoldsItsStamp /\ CanonicalNeverMissing

----------------------------------------------------------------------------
(* client.py: the pagination loops, one round of `while True` at a time.   *)
(* A walk in progress is [done, offset, asked, reqs, err]: the offset the  *)
(* next request carries, the page requests and all the requests issued so  *)
(* far, and the exception that ended the walk ("none": it returned or is   *)
(* still running).                                                         *)

Paged == {"subscriptions", "posts", "archived", "chats", "messages", "highlights"}

\* The remote's answer to subscriptions?limit=10&offset={offset}.
SubscriptionsResponse(n, offset) ==
    IF offset >= n THEN <<>>
    ELSE [i \in 1..(Min(offset + PageLimit, n) - offset) |-> offset + i]

\* The answer to users/{id}/stories/highlights?limit=5&offset={offset}.
CategoriesResponse(n, offset) ==
    IF offset >= n THEN <<>>
    ELSE SubSeq(EnumCategories(n, <<>>), offset + 1, Min(offset + CategoryLimit, n))

NextOffset_Stuck(kind, offset, count, next_offset) == offset

\* The last statement of a round that goes on: `offset += len(users)`,
\* `offset += 10`, `offset = decoded_chats.next_offset`,
\* `offset += len(decoded_messages.messages)`, `offset += 5`.
NextOffset(kind, offset, count, next_offset) ==
    CASE kind = "subscriptions" -> offset + count
      [] kind \in {"posts", "archived"} -> offset + OffsetStep
      [] kind = "chats" -> next_offset
      [] kind = "messages" -> offset + count
      [] OTHER -> offset + CategoryStep

FirstRound == [done |-> FALSE, offset |-> 0, asked |-> 0, reqs |-> 0, err |-> "none"]

\* The request of the round raised: `raise ScrapingException(...)`.
Raises(w) ==
    [w EXCEPT !.done = TRUE, !.asked = @ + 1, !.reqs = @ + 1,
              !.err = "ScrapingException"]

\* `break` / `return`: the walk is over after `extra` further requests.
Returns(w, extra) ==
    [w EXCEPT !.done = TRUE, !.asked = @ + 1, !.reqs = @ + 1 + extra]

GoesOn(w, kind, count, next_offset, extra) ==
    [w EXCEPT !.offset = NextOffset(kind, @, count, next_offset),
              !.asked = @ + 1, !.reqs = @ + 1 + extra]

\* get_subscriptions: `if users: ... offset += len(users)  else: break`.
SubscriptionsRound(n, w) ==
    LET users == SubscriptionsResponse(n, w.offset) IN
    IF Len(users) > 0 THEN GoesOn(w, "subscriptions", Len(users), 0, 0)
    ELSE Returns(w, 0)

\* get_post_media_by_id / get_archived_post_media_by_id.
PostsRound(kind, n, hwm, w) ==
    LET decoded_posts == Page(WalkColl(n, 0, FALSE), w.offset) IN
    IF Len(decoded_posts) = 0 THEN Returns(w, 0)
    ELSE IF ScanPage(kind, decoded_posts, 1, hwm, FALSE, <<>>).stop THEN Returns(w, 0)
    ELSE GoesOn(w, kind, Len(decoded_posts), 0, 0)

\* get_chats: one get_user_details request per partner of the page.
ChatsRound(n, hole, w) ==
    LET decoded_chats == ChatsResponse(n, hole, w.offset) IN
    IF ~decoded_chats.has_more THEN Returns(w, Len(decoded_chats.chats))
    ELSE GoesOn(w, "chats", Len(decoded_chats.chats), decoded_chats.next_offset,
                Len(decoded_chats.chats))

\* get_message_media_by_id.
MessagesRound(n, hwm, w) ==
    LET decoded_messages == MessagesResponse(n, w.offset) IN
    IF ScanMessages(decoded_messages.messages, 1, hwm, PyInt(1), <<>>).stop
    THEN Returns(w, 0)
    ELSE IF ~decoded_messages.has_more THEN Returns(w, 0)
    ELSE GoesOn(w, "messages", Len(decoded_messages.messages), 0, 0)

\* get_highlight_media_by_id, the loop over the pages of categories.
CategoriesRound(n, w) ==
    LET decoded_categories == CategoriesResponse(n, w.offset) IN
    IF Len(decoded_categories) = 0 THEN Returns(w, 0)
    ELSE GoesOn(w, "highlights", Len(decoded_categories), 0, 0)

PagingInputs ==
    [kind : Paged, n : 0..MaxMessages, hole : 0..MaxChats,
     hwm : 0..(MaxMessages + 1), failAt : 0..2]

PagingInit ==
    /\ nIn \in {in \in PagingInputs :
                 /\ in.kind # "chats" => in.hole = 0
                 /\ in.kind = "chats" => in.n <= MaxChats /\ in.hole <= in.n
                 /\ in.kind = "highlights" => in.n <= MaxCategories
                 /\ in.kind \in {"subscriptions", "chats", "highlights"} => in.hwm = 0
                 /\ in.kind \in {"posts", "archived", "messages"} => in.hwm <= in.n + 1}
    /\ nOut = FirstRound
    /\ WalkIdle /\ HwmIdle /\ PassIdle

\* One round of the walk of `kind`; request number failAt is not answered
\* with a document (0: every request is).
Round(kind, next) ==
    /\ ~nOut.done /\ nIn.kind \in kind
    /\ nOut' = IF nOut.asked + 1 = nIn.failAt THEN Raises(nOut) ELSE next
    /\ UNCHANGED <<nIn, walkVars, hwmVars, passVars>>

SubscriptionsStep == Round({"subscriptions"}, SubscriptionsRound(nIn.n, nOut))
PostsStep == Round({"posts", "archived"}, PostsRound(nIn.kind, nIn.n, nIn.hwm, nOut))
ChatsStep == Round({"chats"}, ChatsRound(nIn.n, nIn.hole, nOut))
MessagesStep == Round({"messages"}, MessagesRound(nIn.n, nIn.hwm, nOut))
CategoriesStep == Round({"highlights"}, CategoriesRound(nIn.n, nOut))

PagingNext ==
    \/ SubscriptionsStep \/ PostsStep \/ ChatsStep \/ MessagesStep \/ CategoriesStep

\* A walk that has not returned or raised takes its next round.
SpecPaging == PagingInit /\ [][PagingNext]_vars /\ WF_vars(PagingNext)

----------------------------------------------------------------------------
(* C31: every pagination walk (subscriptions, posts, archived posts,       *)
(* chats, messages, highlight categories) over a finite remote collection  *)
(* issues finitely many requests and returns or raises: a walk over n      *)
(* records asks for at most n + 1 pages and issues at most 2n + 1          *)
(* requests, the offset of a round that goes on is strictly larger than    *)
(* the one before, and every walk is eventually over.                      *)

BoundedRequests ==
    /\ nOut.asked <= nIn.n + 1
    /\ nOut.reqs <= 2 * nIn.n + 1

CursorAdvances == ~nOut'.done => nOut'.offset > nOut.offset

C31_WalksTerminate ==
    [](BoundedRequests) /\ [][CursorAdvances]_vars /\ <>(nOut.done)

\* A walk that returned after three pages or more.
C31_Witness == nOut.done /\ nOut.err = "none" /\ nOut.asked >= 3

====
